---- MODULE Spec2Model ----
(***************************************************************************)
(* Requirement aggregation and compliance evaluation of the concrete      *)
(* compliance screening app.                                               *)
(*                                                                         *)
(* get_final_requirements (src/src/backend/compliance_checker.py) merges   *)
(* the clauses of the selected exposure classes, of a drawing analysis    *)
(* and of the user's constraints into one requirement record;             *)
(* calculate_epd_metrics derives the metrics of a product declaration and *)
(* perform_compliance_check compares them with the requirement record.    *)
(* The session (src/app.py) starts empty; every interaction is one run of *)
(* the script: a regulation is selected, a description typed, documents   *)
(* and drawings are uploaded, the scenario and the drawings are analysed, *)
(* the documents are extracted and the full compliance check runs over    *)
(* their extraction outputs, in a folder that all sessions share: the     *)
(* saving loop and the loop of the check touch it one file at a time,     *)
(* and the other sessions remove and write files in between.              *)
(*                                                                         *)
(* Encoding of Python values:                                              *)
(*   - a dict is a function from its keys (strings) to its values;        *)
(*   - a value whose type add_to_set inspects is tagged:                  *)
(*     [t |-> "none"], [t |-> "str", v |-> code], [t |-> "other"] or      *)
(*     [t |-> "list", v |-> sequence of tagged values];                   *)
(*   - None in a numeric leaf is the number None (every clause value of   *)
(*     the data model is non-negative), None in the place of a dict is    *)
(*     PyNone;                                                             *)
(*   - water/cement ratios are counted in hundredths (0.45 is 45, the     *)
(*     seed 1.0 is 100); the other clauses are whole numbers;             *)
(*   - float('inf') is Inf, a number above every clause value;            *)
(*   - a str that the code inspects character by character is a tuple of  *)
(*     one-character strings;                                              *)
(*   - a float computed by the code is [num, den, off]: the double that   *)
(*     lies off units in the last place from the correctly rounded value  *)
(*     of num/den (num/den in lowest terms); None in its place is PyNone; *)
(*   - an exception leaving a function is the value [raised |-> type].    *)
(***************************************************************************)
EXTENDS Integers, Sequences, FiniteSets, TLC

VARIABLES exposure_classes, regulation_data, user_constraints, drawing_reqs,
          final_reqs, pc,
          epd_data, epd_metrics, compliance_result,
          saved_epd_names, analysis_results, output_dir, regulation_file,
          assessments, shown_error,
          saved_drawing_names, drawing_analysis_results, task_results,
          custom_info_result, epd_files, drawing_files, custom_info, todo,
          epd_input_dir, drawing_input_dir, open_file, other_open_file,
          clicked, listing, all_drawing_results, at_hand

\* the state of the app around the assessment of one product
session == <<saved_epd_names, analysis_results, output_dir, regulation_file,
             assessments, shown_error, saved_drawing_names,
             drawing_analysis_results, task_results, custom_info_result,
             epd_files, drawing_files, custom_info, todo, epd_input_dir,
             drawing_input_dir, open_file, other_open_file, clicked, listing,
             all_drawing_results, at_hand>>

vars == <<exposure_classes, regulation_data, user_constraints, drawing_reqs,
          final_reqs, pc, epd_data, epd_metrics, compliance_result, session>>

\* ------------------------------------------------------------------------
\* Python values
\* ------------------------------------------------------------------------
None == -1

PyNone == [py_none |-> TRUE]

Inf == 1000000

\* dict.get(key): None for a missing key
Get(d, k) == IF k \in DOMAIN d THEN d[k] ELSE None

\* truth value of an optional dict: None and {} are falsy
Truthy(d) == d # PyNone /\ DOMAIN d # {}

\* built-in min(a, b) and max(a, b) of two numbers
Min(a, b) == IF b < a THEN b ELSE a

Max(a, b) == IF b > a THEN b ELSE a

Range(s) == {s[i] : i \in DOMAIN s}

\* ------------------------------------------------------------------------
\* Bounds of the explored inputs
\* ------------------------------------------------------------------------
\* most items, nested lists and their items counted, in an exposure-class list
MaxNodes == 3

\* stringency levels a drawing or user clause is drawn from
NumLevels == 2

\* ------------------------------------------------------------------------
\* Exposure-class codes; str comparison (used by sorted) follows ClassCodes
\* ------------------------------------------------------------------------
ClassCodes == <<"XC1", "XC4", "XX9">>

Rank(c) == CHOOSE i \in DOMAIN ClassCodes : ClassCodes[i] = c

StrLess(a, b) == Rank(a) < Rank(b)

\* sorted(list(S)) for a set of strings
RECURSIVE sorted(_)
sorted(S) ==
    IF S = {} THEN <<>>
    ELSE LET m == CHOOSE x \in S : \A y \in S : x = y \/ StrLess(x, y)
         IN  <<m>> \o sorted(S \ {m})

\* the orders in which a for loop may visit a set
Orderings(S) == {s \in [1..Cardinality(S) -> S] : Range(s) = S}

\* ------------------------------------------------------------------------
\* get_final_requirements
\* ------------------------------------------------------------------------
\* add_to_set without the recursion into nested lists
add_to_set_flat(items) ==
    IF items.t = "none" \/ (items.t = "list" /\ items.v = <<>>) THEN {}
    ELSE UNION { LET item == items.v[i] IN
                 IF item.t = "str" THEN {item.v} ELSE {} : i \in DOMAIN items.v }

\* add_to_set: the strings of a possibly nested list, as added to combined_classes
RECURSIVE add_to_set(_)
add_to_set(items) ==
    IF items.t = "none" \/ (items.t = "list" /\ items.v = <<>>) THEN {}
    ELSE UNION { LET item == items.v[i] IN
                 IF item.t = "list" THEN add_to_set(item)
                 ELSE IF item.t = "str" THEN {item.v}
                 ELSE {} : i \in DOMAIN items.v }

\* combined_classes after both add_to_set calls
combined_classes(ec, dr) ==
    add_to_set(ec) \cup
    (IF Truthy(dr) /\ "drawing_exposure_classes" \in DOMAIN dr
     THEN add_to_set(dr["drawing_exposure_classes"]) ELSE {})

\* the permissive start values of final_reqs
seed_reqs ==
    [max_wc |-> 100, min_cement |-> 0, strength_min_cyl |-> 0,
     strength_min_cube |-> 0, max_aggregate_size |-> Inf]

\* one iteration with the class's w/c ceiling assigned instead of folded
fold_class_last_wins(fr, ec, reg) ==
    IF ec \in DOMAIN reg
    THEN LET reqs == reg[ec] IN
         [max_wc |-> IF Get(reqs, "max_wc") # None
                     THEN reqs["max_wc"] ELSE fr.max_wc,
          min_cement |-> IF Get(reqs, "min_cement") # None
                     THEN Max(fr.min_cement, reqs["min_cement"]) ELSE fr.min_cement,
          strength_min_cyl |-> IF Get(reqs, "strength_min_cyl") # None
                     THEN Max(fr.strength_min_cyl, reqs["strength_min_cyl"])
                     ELSE fr.strength_min_cyl,
          strength_min_cube |-> IF Get(reqs, "strength_min_cube") # None
                     THEN Max(fr.strength_min_cube, reqs["strength_min_cube"])
                     ELSE fr.strength_min_cube,
          max_aggregate_size |-> IF Get(reqs, "max_aggregate_size") # None
                     THEN Min(fr.max_aggregate_size, reqs["max_aggregate_size"])
                     ELSE fr.max_aggregate_size]
    ELSE fr

\* one iteration of the loop over combined_classes
fold_class(fr, ec, reg) ==
    IF ec \in DOMAIN reg
    THEN LET reqs == reg[ec] IN
         [max_wc |-> IF Get(reqs, "max_wc") # None
                     THEN Min(fr.max_wc, reqs["max_wc"]) ELSE fr.max_wc,
          min_cement |-> IF Get(reqs, "min_cement") # None
                     THEN Max(fr.min_cement, reqs["min_cement"]) ELSE fr.min_cement,
          strength_min_cyl |-> IF Get(reqs, "strength_min_cyl") # None
                     THEN Max(fr.strength_min_cyl, reqs["strength_min_cyl"])
                     ELSE fr.strength_min_cyl,
          strength_min_cube |-> IF Get(reqs, "strength_min_cube") # None
                     THEN Max(fr.strength_min_cube, reqs["strength_min_cube"])
                     ELSE fr.strength_min_cube,
          max_aggregate_size |-> IF Get(reqs, "max_aggregate_size") # None
                     THEN Min(fr.max_aggregate_size, reqs["max_aggregate_size"])
                     ELSE fr.max_aggregate_size]
    ELSE fr

\* the loop leaving at the first class the table does not know
RECURSIVE fold_regulations_break(_, _, _)
fold_regulations_break(fr, order, reg) ==
    IF order = <<>> \/ Head(order) \notin DOMAIN reg THEN fr
    ELSE fold_regulations_break(fold_class(fr, Head(order), reg), Tail(order), reg)

\* the loop over combined_classes, visited in the given order
RECURSIVE fold_regulations(_, _, _)
fold_regulations(fr, order, reg) ==
    IF order = <<>> THEN fr
    ELSE fold_regulations(fold_class(fr, Head(order), reg), Tail(order), reg)

\* the drawing's clauses assigned instead of folded
apply_drawing_overwrite(fr, dr) ==
    IF Truthy(dr) /\ "element_specific_reqs" \in DOMAIN dr
    THEN LET dwg_specific == dr["element_specific_reqs"] IN
         [fr EXCEPT
            !.max_wc = IF Get(dwg_specific, "max_w_c_ratio") # None
                       THEN dwg_specific["max_w_c_ratio"] ELSE @,
            !.min_cement = IF Get(dwg_specific, "min_cement_content") # None
                       THEN dwg_specific["min_cement_content"] ELSE @,
            !.strength_min_cyl = IF Get(dwg_specific, "strength_class_mpa") # None
                       THEN dwg_specific["strength_class_mpa"] ELSE @,
            !.max_aggregate_size = IF Get(dwg_specific, "max_aggregate_size") # None
                       THEN dwg_specific["max_aggregate_size"] ELSE @]
    ELSE fr

\* the drawing's strength read under the key strength_class
apply_drawing_strength_class(fr, dr) ==
    IF Truthy(dr) /\ "element_specific_reqs" \in DOMAIN dr
    THEN LET dwg_specific == dr["element_specific_reqs"] IN
         [fr EXCEPT
            !.max_wc = IF Get(dwg_specific, "max_w_c_ratio") # None
                       THEN Min(@, dwg_specific["max_w_c_ratio"]) ELSE @,
            !.min_cement = IF Get(dwg_specific, "min_cement_content") # None
                       THEN Max(@, dwg_specific["min_cement_content"]) ELSE @,
            !.strength_min_cyl = IF Get(dwg_specific, "strength_class") # None
                       THEN Max(@, dwg_specific["strength_class"]) ELSE @,
            !.max_aggregate_size = IF Get(dwg_specific, "max_aggregate_size") # None
                       THEN Min(@, dwg_specific["max_aggregate_size"]) ELSE @]
    ELSE fr

\* override with the drawing's element_specific_reqs
apply_drawing(fr, dr) ==
    IF Truthy(dr) /\ "element_specific_reqs" \in DOMAIN dr
    THEN LET dwg_specific == dr["element_specific_reqs"] IN
         [fr EXCEPT
            !.max_wc = IF Get(dwg_specific, "max_w_c_ratio") # None
                       THEN Min(@, dwg_specific["max_w_c_ratio"]) ELSE @,
            !.min_cement = IF Get(dwg_specific, "min_cement_content") # None
                       THEN Max(@, dwg_specific["min_cement_content"]) ELSE @,
            !.strength_min_cyl = IF Get(dwg_specific, "strength_class_mpa") # None
                       THEN Max(@, dwg_specific["strength_class_mpa"]) ELSE @,
            !.max_aggregate_size = IF Get(dwg_specific, "max_aggregate_size") # None
                       THEN Min(@, dwg_specific["max_aggregate_size"]) ELSE @]
    ELSE fr

\* the user's clauses assigned instead of folded
apply_user_overwrite(fr, uc) ==
    IF Truthy(uc)
    THEN [fr EXCEPT
            !.max_wc = IF Get(uc, "max_w_c_ratio") # None
                       THEN uc["max_w_c_ratio"] ELSE @,
            !.min_cement = IF Get(uc, "min_cement_content") # None
                       THEN uc["min_cement_content"] ELSE @,
            !.strength_min_cyl = IF Get(uc, "min_mpa_strength") # None
                       THEN uc["min_mpa_strength"] ELSE @,
            !.max_aggregate_size = IF Get(uc, "max_aggregate_size") # None
                       THEN uc["max_aggregate_size"] ELSE @]
    ELSE fr

\* the user's clauses folded with a null read as 0
apply_user_null_as_zero(fr, uc) ==
    IF Truthy(uc)
    THEN [fr EXCEPT
            !.max_wc = Min(@, IF Get(uc, "max_w_c_ratio") # None
                              THEN uc["max_w_c_ratio"] ELSE 0),
            !.min_cement = Max(@, IF Get(uc, "min_cement_content") # None
                              THEN uc["min_cement_content"] ELSE 0),
            !.strength_min_cyl = Max(@, IF Get(uc, "min_mpa_strength") # None
                              THEN uc["min_mpa_strength"] ELSE 0),
            !.max_aggregate_size = Min(@, IF Get(uc, "max_aggregate_size") # None
                              THEN uc["max_aggregate_size"] ELSE 0)]
    ELSE fr

\* override with the user's constraints
apply_user(fr, uc) ==
    IF Truthy(uc)
    THEN [fr EXCEPT
            !.max_wc = IF Get(uc, "max_w_c_ratio") # None
                       THEN Min(@, uc["max_w_c_ratio"]) ELSE @,
            !.min_cement = IF Get(uc, "min_cement_content") # None
                       THEN Max(@, uc["min_cement_content"]) ELSE @,
            !.strength_min_cyl = IF Get(uc, "min_mpa_strength") # None
                       THEN Max(@, uc["min_mpa_strength"]) ELSE @,
            !.max_aggregate_size = IF Get(uc, "max_aggregate_size") # None
                       THEN Min(@, uc["max_aggregate_size"]) ELSE @]
    ELSE fr

\* the record returned without the clean-up
clean_up_missing(fr) == fr

\* clean up the infinite value if no Dmax was ever specified
clean_up(fr) ==
    IF fr.max_aggregate_size = Inf
    THEN [fr EXCEPT !.max_aggregate_size = None] ELSE fr

\* the string codes of a value in order of appearance, repeats kept
RECURSIVE listed_codes(_)
listed_codes(x) ==
    IF x.t = "str" THEN <<x.v>>
    ELSE IF x.t = "list" /\ x.v # <<>>
         THEN listed_codes(Head(x.v)) \o listed_codes([t |-> "list", v |-> Tail(x.v)])
         ELSE <<>>

\* sorted() of a list of strings, repeats kept
RECURSIVE sorted_list(_)
sorted_list(l) ==
    IF l = <<>> THEN <<>>
    ELSE LET i == CHOOSE x \in DOMAIN l : \A y \in DOMAIN l : ~StrLess(l[y], l[x])
         IN  <<l[i]>> \o sorted_list(SubSeq(l, 1, i - 1) \o SubSeq(l, i + 1, Len(l)))

\* source_exposure_classes built from a list instead of a set
source_exposure_classes_from_list(ec, dr) ==
    sorted_list(listed_codes(ec) \o
                (IF Truthy(dr) /\ "drawing_exposure_classes" \in DOMAIN dr
                 THEN listed_codes(dr["drawing_exposure_classes"]) ELSE <<>>))

\* final_reqs["source_exposure_classes"]
source_exposure_classes(ec, dr) == sorted(combined_classes(ec, dr))

\* the call refusing an argument that is an error object
requirements_in_order_rejecting(ec, reg, uc, dr, order) ==
    IF \/ (uc # PyNone /\ "error" \in DOMAIN uc)
       \/ (dr # PyNone /\ "error" \in DOMAIN dr)
    THEN [raised |-> "ValueError"]
    ELSE LET folded == fold_regulations(seed_reqs, order, reg)
             cleaned == clean_up(apply_user(apply_drawing(folded, dr), uc))
         IN  [max_wc |-> cleaned.max_wc,
              min_cement |-> cleaned.min_cement,
              strength_min_cyl |-> cleaned.strength_min_cyl,
              strength_min_cube |-> cleaned.strength_min_cube,
              max_aggregate_size |-> cleaned.max_aggregate_size,
              source_exposure_classes |-> source_exposure_classes(ec, dr)]

\* the returned record, the loop having visited combined_classes in `order`
requirements_in_order(ec, reg, uc, dr, order) ==
    LET folded == fold_regulations(seed_reqs, order, reg)
        cleaned == clean_up(apply_user(apply_drawing(folded, dr), uc))
    IN  [max_wc |-> cleaned.max_wc,
         min_cement |-> cleaned.min_cement,
         strength_min_cyl |-> cleaned.strength_min_cyl,
         strength_min_cube |-> cleaned.strength_min_cube,
         max_aggregate_size |-> cleaned.max_aggregate_size,
         source_exposure_classes |-> source_exposure_classes(ec, dr)]

\* get_final_requirements with the loop in sorted order
get_final_requirements(ec, reg, uc, dr) ==
    requirements_in_order(ec, reg, uc, dr, sorted(combined_classes(ec, dr)))

\* ------------------------------------------------------------------------
\* Inputs
\* ------------------------------------------------------------------------
NoneValue == [t |-> "none"]

Str(c) == [t |-> "str", v |-> c]

List(l) == [t |-> "list", v |-> l]

Other == [t |-> "other"]

\* the items of n nodes a list may hold: a code, a non-string, or a nested
\* list whose items have n - 1 nodes together
RECURSIVE ItemsOfSize(_), ItemSeqs(_)
ItemsOfSize(n) ==
    IF n = 1 THEN {Str(c) : c \in Range(ClassCodes)} \cup {Other, List(<<>>)}
    ELSE {List(l) : l \in ItemSeqs(n - 1)}

\* the sequences of items that have m nodes together
ItemSeqs(m) ==
    IF m = 0 THEN {<<>>}
    ELSE UNION { {<<x>> \o l : x \in ItemsOfSize(k), l \in ItemSeqs(m - k)}
                 : k \in 1..m }

ExposureLists ==
    {NoneValue} \cup {List(l) : l \in UNION {ItemSeqs(m) : m \in 0..MaxNodes}}

\* rows of a regulation table: EN 206 values, and rows with nulls and a Dmax
FullRow(c) ==
    IF c = "XC1"
    THEN [max_wc |-> 65, min_cement |-> 260, strength_min_cyl |-> 20,
          strength_min_cube |-> 25]
    ELSE [max_wc |-> 50, min_cement |-> 300, strength_min_cyl |-> 30,
          strength_min_cube |-> 37]

SparseRow(c) ==
    IF c = "XC1"
    THEN [max_wc |-> None, min_cement |-> 260, strength_min_cyl |-> 20,
          max_aggregate_size |-> 32]
    ELSE [max_wc |-> 50, min_cement |-> None, strength_min_cube |-> 37,
          max_aggregate_size |-> 16]

TableClasses == {"XC1", "XC4"}

RegulationTables ==
    UNION { { [c \in D |-> IF c \in F THEN FullRow(c) ELSE SparseRow(c)]
              : F \in SUBSET D } : D \in SUBSET TableClasses }

UserKeys == {"max_w_c_ratio", "min_cement_content", "min_mpa_strength",
             "max_aggregate_size"}

DrawingKeys == {"max_w_c_ratio", "min_cement_content", "strength_class_mpa",
                "max_aggregate_size"}

\* the value a user states for a clause at stringency level l
UserValue(k, l) ==
    CASE k = "max_w_c_ratio" -> IF l = 1 THEN 105 ELSE 65 - 10 * l
      [] k = "min_cement_content" -> 230 + 50 * l
      [] k = "min_mpa_strength" -> 15 + 10 * l
      [] k = "max_aggregate_size" -> 40 - 8 * l

\* the value a drawing states for a clause at stringency level l
DrawingValue(k, l) ==
    CASE k = "max_w_c_ratio" -> IF l = 1 THEN 110 ELSE 70 - 10 * l
      [] k = "min_cement_content" -> 240 + 50 * l
      [] k = "strength_class_mpa" -> 17 + 10 * l
      [] k = "max_aggregate_size" -> 42 - 8 * l

\* user records: the three keys of the extraction prompt, null unless stated,
\* and max_aggregate_size only when stated
UserRecords ==
    { [k \in (UserKeys \ {"max_aggregate_size"}) \cup M |->
          IF k \in M THEN UserValue(k, l) ELSE None]
      : M \in SUBSET UserKeys, l \in 1..NumLevels }

UserInputs == {PyNone, <<>>} \cup UserRecords

\* element_specific_reqs: the four keys of the drawing prompt, null unless stated
DrawingClauses ==
    { [k \in DrawingKeys |-> IF k \in M THEN DrawingValue(k, l) ELSE None]
      : M \in SUBSET DrawingKeys, l \in 1..NumLevels }

DrawingRecords(lists) ==
    { [element_specific_reqs |-> d, drawing_exposure_classes |-> x]
      : d \in DrawingClauses, x \in lists }
    \cup { [drawing_exposure_classes |-> x] : x \in lists }
    \cup { [element_specific_reqs |-> d] : d \in DrawingClauses }

\* drawing records that state the strength under the key strength_class
InterfaceRecords ==
    { [element_specific_reqs |->
         [strength_class |-> v, min_cement_content |-> None,
          max_w_c_ratio |-> None, max_aggregate_size |-> None],
       drawing_exposure_classes |-> List(<<>>)]
      : v \in {None} \cup {DrawingValue("strength_class_mpa", l) : l \in 1..NumLevels} }

\* what a failed extraction of the user's text or of a drawing returns
FailedExtraction == [error |-> "An error occurred during the API call"]

\* inputs that vary the class lists
ClassCases ==
    /\ exposure_classes \in ExposureLists
    /\ regulation_data \in
         { <<>>, [c \in TableClasses |-> FullRow(c)],
           [c \in TableClasses |-> SparseRow(c)] }
    /\ user_constraints \in {PyNone, [k \in UserKeys |-> UserValue(k, 1)]}
    /\ drawing_reqs \in
         {PyNone} \cup
         { [element_specific_reqs |-> [k \in DrawingKeys |-> None],
            drawing_exposure_classes |-> x]
           : x \in {NoneValue, List(<<Str("XC1")>>), List(<<Str("XC1"), Str("XC1")>>),
                    List(<<List(<<Str("XC4")>>), Str("XX9")>>)} }

\* inputs that vary the clause records
ClauseCases ==
    /\ exposure_classes = List(<<Str("XC4")>>)
    /\ regulation_data \in RegulationTables
    /\ user_constraints \in UserInputs \cup {FailedExtraction}
    /\ drawing_reqs \in
         {PyNone, <<>>} \cup DrawingRecords({List(<<>>), List(<<Str("XC1")>>)})
         \cup InterfaceRecords \cup {FailedExtraction}

\* ------------------------------------------------------------------------
\* The call
\* ------------------------------------------------------------------------
\* the functions are called on their arguments, outside a session of the app
NoSession ==
    /\ saved_epd_names = <<>>
    /\ analysis_results = <<>>
    /\ output_dir = <<>>
    /\ regulation_file = PyNone
    /\ assessments = <<>>
    /\ shown_error = PyNone
    /\ saved_drawing_names = <<>>
    /\ drawing_analysis_results = <<>>
    /\ task_results = <<>>
    /\ custom_info_result = PyNone
    /\ epd_files = <<>>
    /\ drawing_files = <<>>
    /\ custom_info = ""
    /\ todo = <<>>
    /\ epd_input_dir = <<>>
    /\ drawing_input_dir = <<>>
    /\ open_file = PyNone
    /\ other_open_file = PyNone
    /\ clicked = "none"
    /\ listing = {}
    /\ all_drawing_results = <<>>
    /\ at_hand = <<>>

Init ==
    /\ ClassCases \/ ClauseCases
    /\ final_reqs = PyNone
    /\ pc = "call"
    /\ epd_data = PyNone
    /\ epd_metrics = PyNone
    /\ compliance_result = PyNone
    /\ NoSession

\* get_final_requirements runs on the inputs and returns final_reqs
Call ==
    /\ pc = "call"
    /\ \E order \in Orderings(combined_classes(exposure_classes, drawing_reqs)) :
         final_reqs' = requirements_in_order(exposure_classes, regulation_data,
                                             user_constraints, drawing_reqs, order)
    /\ pc' = "done"
    /\ UNCHANGED <<exposure_classes, regulation_data, user_constraints, drawing_reqs,
                   epd_data, epd_metrics, compliance_result, session>>

Next == Call

Spec == Init /\ [][Next]_vars

\* ------------------------------------------------------------------------
\* Vocabulary of the properties
\* ------------------------------------------------------------------------
Fields == {"max_wc", "min_cement", "strength_min_cyl", "strength_min_cube",
           "max_aggregate_size"}

\* ceilings are stricter when smaller, floors when larger
CeilingFields == {"max_wc", "max_aggregate_size"}

\* the key under which a user or drawing record states a clause ("" when none)
UserKey(f) ==
    CASE f = "max_wc" -> "max_w_c_ratio"
      [] f = "min_cement" -> "min_cement_content"
      [] f = "strength_min_cyl" -> "min_mpa_strength"
      [] f = "max_aggregate_size" -> "max_aggregate_size"
      [] OTHER -> ""

DrawingKey(f) ==
    CASE f = "max_wc" -> "max_w_c_ratio"
      [] f = "min_cement" -> "min_cement_content"
      [] f = "strength_min_cyl" -> "strength_class_mpa"
      [] f = "max_aggregate_size" -> "max_aggregate_size"
      [] OTHER -> ""

Returned == pc = "done"

\* the classes of the call, and those the regulation table knows
Contributing ==
    combined_classes(exposure_classes, drawing_reqs) \cap DOMAIN regulation_data

\* the non-null values each source states for clause f
RegValues(f) ==
    { regulation_data[c][f] :
        c \in {x \in Contributing : Get(regulation_data[x], f) # None} }

HasSpecific == drawing_reqs # PyNone /\ "element_specific_reqs" \in DOMAIN drawing_reqs

DrawingValues(f) ==
    IF HasSpecific /\ Get(drawing_reqs["element_specific_reqs"], DrawingKey(f)) # None
    THEN {drawing_reqs["element_specific_reqs"][DrawingKey(f)]} ELSE {}

UserValues(f) ==
    IF user_constraints # PyNone /\ Get(user_constraints, UserKey(f)) # None
    THEN {user_constraints[UserKey(f)]} ELSE {}

DefinedValues(f) == RegValues(f) \cup DrawingValues(f) \cup UserValues(f)

SetMin(S) == CHOOSE x \in S : \A y \in S : x <= y

SetMax(S) == CHOOSE x \in S : \A y \in S : x >= y

\* the strictest member of a set of values of clause f
Strictest(f, S) == IF f \in CeilingFields THEN SetMin(S) ELSE SetMax(S)

\* a is at least as strict as b for clause f; null is the loosest value
AtLeastAsStrict(f, a, b) ==
    b = None \/ (a # None /\ IF f \in CeilingFields THEN a <= b ELSE a >= b)

\* a is strictly stricter than b for clause f
StrictlyTighter(f, a, b) == IF f \in CeilingFields THEN a < b ELSE a > b

\* a drawing record without its element_specific_reqs
WithoutSpecific(dr) ==
    IF dr = PyNone THEN PyNone
    ELSE [k \in DOMAIN dr \ {"element_specific_reqs"} |-> dr[k]]

\* the record returned for the same classes and table with other overrides
Requirements(uc, dr) ==
    get_final_requirements(exposure_classes, regulation_data, uc, dr)

\* ------------------------------------------------------------------------
\* Properties of get_final_requirements
\* ------------------------------------------------------------------------
\* C1  Monotonic stringency: the returned record is, field by field, at least
\* as strict as the record returned for the same classes and table without the
\* user constraints, without the drawing's element_specific_reqs, without the
\* drawing, and without both override sources (null counts as loosest).
C1_MonotonicStringency ==
    Returned =>
      \A f \in Fields :
        /\ AtLeastAsStrict(f, final_reqs[f], Requirements(PyNone, drawing_reqs)[f])
        /\ AtLeastAsStrict(f, final_reqs[f],
                           Requirements(user_constraints, WithoutSpecific(drawing_reqs))[f])
        /\ AtLeastAsStrict(f, final_reqs[f], Requirements(user_constraints, PyNone)[f])
        /\ AtLeastAsStrict(f, final_reqs[f], Requirements(PyNone, PyNone)[f])

\* a user ceiling looser than the regulation's and a drawing floor below the
\* user's were both added, and the regulation's w/c ceiling stood
C1_Witness ==
    /\ Returned
    /\ RegValues("max_wc") # {} /\ UserValues("max_wc") # {}
    /\ \A u \in UserValues("max_wc") : u > SetMin(RegValues("max_wc"))
    /\ DrawingValues("min_cement") # {}
    /\ final_reqs.max_wc = SetMin(RegValues("max_wc"))
    /\ final_reqs.max_wc = Requirements(PyNone, PyNone).max_wc

\* a user record all of whose present fields are null
AllNullUser ==
    /\ user_constraints # PyNone
    /\ \A k \in DOMAIN user_constraints : k \in UserKeys /\ user_constraints[k] = None

\* a drawing record whose clauses are all null and whose classes are already selected
AllNullDrawing ==
    /\ drawing_reqs # PyNone
    /\ HasSpecific =>
         \A k \in DOMAIN drawing_reqs["element_specific_reqs"] :
            drawing_reqs["element_specific_reqs"][k] = None
    /\ "drawing_exposure_classes" \in DOMAIN drawing_reqs =>
         add_to_set(drawing_reqs["drawing_exposure_classes"])
            \subseteq add_to_set(exposure_classes)

\* the fold of the regulation rows of the selected classes alone
RegulationOnlyFold ==
    LET classes == add_to_set(exposure_classes)
        folded == clean_up(fold_regulations(seed_reqs, sorted(classes), regulation_data))
    IN  [max_wc |-> folded.max_wc,
         min_cement |-> folded.min_cement,
         strength_min_cyl |-> folded.strength_min_cyl,
         strength_min_cube |-> folded.strength_min_cube,
         max_aggregate_size |-> folded.max_aggregate_size,
         source_exposure_classes |-> sorted(classes)]

\* C2  Null identity: with no drawing and no user record the call returns the
\* regulation-only fold, and an all-null user record or an all-null drawing
\* record that adds no class returns what None in its place returns.
C2_NullIdentity ==
    Returned =>
      /\ (user_constraints = PyNone /\ drawing_reqs = PyNone) =>
            final_reqs = RegulationOnlyFold
      /\ AllNullUser => final_reqs = Requirements(PyNone, drawing_reqs)
      /\ AllNullDrawing => final_reqs = Requirements(user_constraints, PyNone)

\* an all-null user record with keys and an all-null drawing record were passed
\* with a class the table knows, and the regulation-only fold came back
C2_Witness ==
    /\ Returned
    /\ AllNullUser /\ DOMAIN user_constraints # {}
    /\ AllNullDrawing /\ HasSpecific
    /\ Contributing # {}
    /\ final_reqs = RegulationOnlyFold

\* C3  Per-field fold result: a clause that some source defines equals the
\* minimum (ceilings) or maximum (floors) of all the values defined for it.
C3_PerFieldFold ==
    Returned =>
      \A f \in Fields :
        DefinedValues(f) # {} => final_reqs[f] = Strictest(f, DefinedValues(f))

\* C4  Unconstrained re-nulling: a clause that no source defines is null in
\* the returned record.
C4_UnconstrainedIsNull ==
    Returned =>
      \A f \in Fields : DefinedValues(f) = {} => final_reqs[f] = None

\* C5  Aggregate-size re-nulling: max_aggregate_size is null when no source
\* defines it, and a finite number when some source does.
C5_AggregateSizeReNulled ==
    Returned =>
      /\ DefinedValues("max_aggregate_size") = {} =>
            final_reqs.max_aggregate_size = None
      /\ DefinedValues("max_aggregate_size") # {} =>
            /\ final_reqs.max_aggregate_size # None
            /\ final_reqs.max_aggregate_size < Inf

\* classes with regulation rows and override records were combined, none of
\* them stating a Dmax, and the field came back null
C5_Witness ==
    /\ Returned
    /\ Contributing # {} /\ HasSpecific /\ Truthy(user_constraints)
    /\ DefinedValues("max_aggregate_size") = {}
    /\ DefinedValues("max_wc") # {}
    /\ final_reqs.max_aggregate_size = None

\* C6  User constraints are never weakened: every clause the user states is
\* met by the returned record at least as strictly, and equals the user's
\* value when that value is strictly tighter than every other source's.
C6_UserNeverWeakened ==
    Returned =>
      \A f \in Fields : \A u \in UserValues(f) :
        /\ AtLeastAsStrict(f, final_reqs[f], u)
        /\ (\A o \in RegValues(f) \cup DrawingValues(f) : StrictlyTighter(f, u, o))
              => final_reqs[f] = u

\* the record for the same call without the drawing's clauses and the user's
RegulationBaseline == Requirements(PyNone, WithoutSpecific(drawing_reqs))

\* drawing value d of clause f is no stricter than the combined value b
NoStricter(f, d, b) ==
    b # None /\ IF f \in CeilingFields THEN d >= b ELSE d <= b

\* C7  Drawings only tighten: no clause of the returned record is less strict
\* than the regulation-only fold of the same classes, and where the user states
\* nothing for a clause and the drawing's value is no stricter than the
\* regulation-only value, the clause keeps the regulation-only value.
C7_DrawingsOnlyTighten ==
    Returned =>
      \A f \in Fields :
        /\ AtLeastAsStrict(f, final_reqs[f], RegulationBaseline[f])
        /\ \A d \in DrawingValues(f) :
             (UserValues(f) = {} /\ NoStricter(f, d, RegulationBaseline[f]))
                => final_reqs[f] = RegulationBaseline[f]

\* a drawing stated a w/c ceiling no stricter than the regulation's and a
\* cement floor above the regulation's; the ceiling stood, the floor rose
C7_Witness ==
    /\ Returned
    /\ user_constraints = PyNone
    /\ RegValues("max_wc") # {} /\ RegValues("min_cement") # {}
    /\ \E d \in DrawingValues("max_wc") :
          d >= SetMin(RegValues("max_wc")) /\ final_reqs.max_wc = SetMin(RegValues("max_wc"))
    /\ \E d \in DrawingValues("min_cement") :
          d > SetMax(RegValues("min_cement")) /\ final_reqs.min_cement = d

\* the list with its i-th item removed
RemoveAt(l, i) == List(SubSeq(l.v, 1, i - 1) \o SubSeq(l.v, i + 1, Len(l.v)))

Positions(l) == IF l.t = "list" THEN DOMAIN l.v ELSE {}

HasDrawingList ==
    drawing_reqs # PyNone /\ "drawing_exposure_classes" \in DOMAIN drawing_reqs

DrawingList ==
    IF HasDrawingList THEN drawing_reqs["drawing_exposure_classes"] ELSE NoneValue

\* the drawing record with another class list
WithDrawingList(l) == [drawing_reqs EXCEPT !["drawing_exposure_classes"] = l]

\* the i-th direct class is also listed elsewhere, directly or by the drawing
DuplicateDirect(i) ==
    /\ exposure_classes.v[i].t = "str"
    /\ exposure_classes.v[i].v \in
         add_to_set(RemoveAt(exposure_classes, i)) \cup add_to_set(DrawingList)

\* the i-th drawing class is also listed elsewhere, by the drawing or directly
DuplicateDrawing(i) ==
    /\ DrawingList.v[i].t = "str"
    /\ DrawingList.v[i].v \in
         add_to_set(RemoveAt(DrawingList, i)) \cup add_to_set(exposure_classes)

\* C8  Duplicate classes collapse: removing one occurrence of a class that is
\* listed more than once (twice directly, twice by the drawing, or once in
\* each) returns the same record, source_exposure_classes included.
C8_DuplicatesCollapse ==
    Returned =>
      /\ \A i \in Positions(exposure_classes) :
           DuplicateDirect(i) =>
             final_reqs = get_final_requirements(RemoveAt(exposure_classes, i),
                             regulation_data, user_constraints, drawing_reqs)
      /\ \A i \in Positions(DrawingList) :
           DuplicateDrawing(i) =>
             final_reqs = get_final_requirements(exposure_classes, regulation_data,
                             user_constraints, WithDrawingList(RemoveAt(DrawingList, i)))

\* a class of the table was listed twice directly and came back once
C8_Witness ==
    /\ Returned
    /\ \E i \in Positions(exposure_classes) :
          /\ DuplicateDirect(i)
          /\ exposure_classes.v[i].v \in add_to_set(RemoveAt(exposure_classes, i))
          /\ exposure_classes.v[i].v \in DOMAIN regulation_data
          /\ final_reqs.source_exposure_classes = <<exposure_classes.v[i].v>>

\* the clause fields of a requirement record
Clauses(r) == [f \in Fields |-> r[f]]

UnknownAt(l, i) == l.v[i].t = "str" /\ l.v[i].v \notin DOMAIN regulation_data

\* C9  Unknown classes are skipped: the call returns a record whatever the
\* classes are, and removing a class that is not a key of the regulation
\* table from the input leaves every clause field as it was.
C9_UnknownClassesSkipped ==
    Returned =>
      /\ DOMAIN final_reqs = Fields \cup {"source_exposure_classes"}
      /\ \A i \in Positions(exposure_classes) :
           UnknownAt(exposure_classes, i) =>
             Clauses(final_reqs) =
               Clauses(get_final_requirements(RemoveAt(exposure_classes, i),
                          regulation_data, user_constraints, drawing_reqs))
      /\ \A i \in Positions(DrawingList) :
           UnknownAt(DrawingList, i) =>
             Clauses(final_reqs) =
               Clauses(get_final_requirements(exposure_classes, regulation_data,
                          user_constraints, WithDrawingList(RemoveAt(DrawingList, i))))

\* a class the table does not know was listed in a call that also names a
\* class it knows, and the known class's w/c ceiling came back
C9_Witness ==
    /\ Returned
    /\ \E i \in Positions(exposure_classes) : UnknownAt(exposure_classes, i)
    /\ Contributing # {}
    /\ RegValues("max_wc") # {}
    /\ user_constraints = PyNone
    /\ final_reqs.max_wc = SetMin(RegValues("max_wc"))
    /\ Len(final_reqs.source_exposure_classes) > Cardinality(Contributing)

\* the string codes of a value, in order of appearance, nested lists included
RECURSIVE Flatten(_)
Flatten(x) ==
    IF x.t = "str" THEN <<x.v>>
    ELSE IF x.t = "list" /\ x.v # <<>>
         THEN Flatten(Head(x.v)) \o Flatten(List(Tail(x.v)))
         ELSE <<>>

\* C10  Provenance: source_exposure_classes is strictly increasing (sorted and
\* duplicate-free) and holds exactly the string codes found in exposure_classes
\* and in the drawing's drawing_exposure_classes, at any depth of nesting.
C10_Provenance ==
    Returned =>
      LET src == final_reqs.source_exposure_classes IN
      /\ \A i, j \in DOMAIN src : i < j => StrLess(src[i], src[j])
      /\ Range(src) = Range(Flatten(exposure_classes)) \cup Range(Flatten(DrawingList))

\* nested and repeated codes from both lists came back as three sorted codes
C10_Witness ==
    /\ Returned
    /\ \E i \in Positions(exposure_classes) :
          exposure_classes.v[i].t = "list" /\ Flatten(exposure_classes.v[i]) # <<>>
    /\ Range(Flatten(DrawingList)) \ Range(Flatten(exposure_classes)) # {}
    /\ Range(Flatten(DrawingList)) \cap Range(Flatten(exposure_classes)) # {}
    /\ final_reqs.source_exposure_classes = ClassCodes

\* ------------------------------------------------------------------------
\* str methods and float arithmetic
\* ------------------------------------------------------------------------
UpperCase == <<"A", "B", "C", "D", "E", "F", "G", "H", "I", "J", "K", "L", "M",
               "N", "O", "P", "Q", "R", "S", "T", "U", "V", "W", "X", "Y", "Z">>

LowerCase == <<"a", "b", "c", "d", "e", "f", "g", "h", "i", "j", "k", "l", "m",
               "n", "o", "p", "q", "r", "s", "t", "u", "v", "w", "x", "y", "z">>

\* the lower-case letter of each upper-case letter
ToLower ==
    [c \in {UpperCase[k] : k \in DOMAIN UpperCase} |->
        LowerCase[CHOOSE k \in DOMAIN UpperCase : UpperCase[k] = c]]

\* s.lower()
lower(s) ==
    [i \in 1..Len(s) |-> IF s[i] \in DOMAIN ToLower THEN ToLower[s[i]] ELSE s[i]]

\* sub in s
Contains(sub, s) ==
    \E i \in 1..(Len(s) - Len(sub) + 1) : SubSeq(s, i, i + Len(sub) - 1) = sub

RECURSIVE gcd(_, _)
gcd(a, b) == IF b = 0 THEN a ELSE gcd(b, a % b)

\* the double off units in the last place from the rounded value of n/d
Float(n, d, off) ==
    LET g == gcd(n, d) IN [num |-> n \div g, den |-> d \div g, off |-> off]

\* a / b of two ints: one correctly rounded operation
Divide(a, b) == Float(a, b, 0)

\* the pairs (c, d), c up to 100 and d one of the densities 2400 and 2500 of
\* the declarations below, for which the double (c / 100) * d is not the
\* rounded value of c * d / 100 but the double next above it, or next below it
RoundedAbove ==
    {<<7, 2400>>, <<14, 2400>>, <<17, 2400>>, <<28, 2400>>, <<34, 2400>>,
     <<56, 2400>>, <<68, 2400>>, <<81, 2400>>,
     <<7, 2500>>, <<14, 2500>>, <<17, 2500>>, <<28, 2500>>, <<34, 2500>>,
     <<56, 2500>>, <<68, 2500>>, <<81, 2500>>}

RoundedBelow ==
    {<<41, 2400>>, <<57, 2400>>, <<69, 2400>>, <<82, 2400>>,
     <<57, 2500>>, <<69, 2500>>}

\* (c / 100) * d of two ints: two rounded operations
HundredthsTimes(c, d) ==
    Float(c * d, 100, IF <<c, d>> \in RoundedAbove THEN 1
                      ELSE IF <<c, d>> \in RoundedBelow THEN -1 ELSE 0)

\* x < r for a float x and a whole number r
FloatLess(x, r) ==
    x.num < r * x.den \/ (x.num = r * x.den /\ x.off < 0)

\* x > h / 100 for a float x and a ratio of h hundredths
FloatGreaterHundredths(x, h) ==
    100 * x.num > h * x.den \/ (100 * x.num = h * x.den /\ x.off > 0)

\* an exception leaving a function
Raise(e) == [raised |-> e]

IsRaised(x) == "raised" \in DOMAIN x

\* ------------------------------------------------------------------------
\* calculate_epd_metrics
\* ------------------------------------------------------------------------
water == <<"w", "a", "t", "e", "r">>

agua == <<"a", "g", "u", "a">>

cement == <<"c", "e", "m", "e", "n", "t">>

cem == <<"c", "e", "m", " ">>

\* the loop body with  =  in the place of  +=
add_material_last(sums, material) ==
    LET name == IF "name" \in DOMAIN material THEN material["name"] ELSE Str(<<>>)
        percentage == IF "percentage" \in DOMAIN material
                      THEN material["percentage"] ELSE 0
    IN  IF name.t # "str" THEN Raise("AttributeError")
        ELSE LET name_lower == lower(name.v) IN
             IF Contains(water, name_lower) \/ Contains(agua, name_lower)
             THEN IF percentage = None THEN Raise("TypeError")
                  ELSE [sums EXCEPT !.water_mass_percent = percentage]
             ELSE IF Contains(cement, name_lower) \/ Contains(cem, name_lower)
             THEN IF percentage = None THEN Raise("TypeError")
                  ELSE [sums EXCEPT !.cement_mass_percent = percentage]
             ELSE sums

\* the loop body with the cement test in an if of its own
add_material_both(sums, material) ==
    LET name == IF "name" \in DOMAIN material THEN material["name"] ELSE Str(<<>>)
        percentage == IF "percentage" \in DOMAIN material
                      THEN material["percentage"] ELSE 0
    IN  IF name.t # "str" THEN Raise("AttributeError")
        ELSE LET name_lower == lower(name.v)
                 is_water == Contains(water, name_lower) \/ Contains(agua, name_lower)
                 is_cement == Contains(cement, name_lower) \/ Contains(cem, name_lower)
             IN  IF (is_water \/ is_cement) /\ percentage = None THEN Raise("TypeError")
                 ELSE [water_mass_percent |->
                          sums.water_mass_percent + (IF is_water THEN percentage ELSE 0),
                       cement_mass_percent |->
                          sums.cement_mass_percent + (IF is_cement THEN percentage ELSE 0)]

\* the loop body for one material: None.lower() and int += None raise
add_material(sums, material) ==
    LET name == IF "name" \in DOMAIN material THEN material["name"] ELSE Str(<<>>)
        percentage == IF "percentage" \in DOMAIN material
                      THEN material["percentage"] ELSE 0
    IN  IF name.t # "str" THEN Raise("AttributeError")
        ELSE LET name_lower == lower(name.v) IN
             IF Contains(water, name_lower) \/ Contains(agua, name_lower)
             THEN IF percentage = None THEN Raise("TypeError")
                  ELSE [sums EXCEPT !.water_mass_percent = @ + percentage]
             ELSE IF Contains(cement, name_lower) \/ Contains(cem, name_lower)
             THEN IF percentage = None THEN Raise("TypeError")
                  ELSE [sums EXCEPT !.cement_mass_percent = @ + percentage]
             ELSE sums

\* the loop over mat_comp_list, left at the first exception
RECURSIVE sum_materials(_, _)
sum_materials(sums, mat_comp_list) ==
    IF mat_comp_list = <<>> THEN sums
    ELSE LET next == add_material(sums, Head(mat_comp_list))
         IN  IF IsRaised(next) THEN next
             ELSE sum_materials(next, Tail(mat_comp_list))

\* the quotient taken the other way round
calculated_wc_inverted(sums) ==
    IF sums.cement_mass_percent > 0 /\ sums.water_mass_percent > 0
    THEN Divide(sums.cement_mass_percent, sums.water_mass_percent)
    ELSE PyNone

\* metrics["calculated_wc"]
calculated_wc(sums) ==
    IF sums.cement_mass_percent > 0
    THEN Divide(sums.water_mass_percent, sums.cement_mass_percent)
    ELSE PyNone

\* the cement content computed for a cement sum of zero as well
cement_content_of_zero(density, sums) ==
    IF density # None /\ density # 0
    THEN HundredthsTimes(sums.cement_mass_percent, density)
    ELSE PyNone

\* metrics["cement_content_kg_m3"]; None and 0 are falsy densities
cement_content_kg_m3(density, sums) ==
    IF density # None /\ density # 0 /\ sums.cement_mass_percent > 0
    THEN HundredthsTimes(sums.cement_mass_percent, density)
    ELSE PyNone

\* the metrics record, or the exception that iterating mat_comp raises
calculate_epd_metrics(epd) ==
    LET density == Get(epd, "density")
        mat_comp_list == IF "mat_comp" \in DOMAIN epd
                         THEN epd["mat_comp"] ELSE List(<<>>)
    IN  IF mat_comp_list.t # "list" THEN Raise("TypeError")
        ELSE LET sums == sum_materials([water_mass_percent |-> 0,
                                        cement_mass_percent |-> 0],
                                       mat_comp_list.v)
             IN  IF IsRaised(sums) THEN sums
                 ELSE [calculated_wc |-> calculated_wc(sums),
                       cement_content_kg_m3 |-> cement_content_kg_m3(density, sums),
                       strength_mpa |-> Get(epd, "MPa"),
                       max_aggregate_size |-> Get(epd, "max_aggregate_size")]

\* ------------------------------------------------------------------------
\* perform_compliance_check
\* ------------------------------------------------------------------------
\* a line of results["details"]: the verdict, the clause and the two values
\* that the text shows
Finding(verdict, clause, value, required) ==
    [verdict |-> verdict, clause |-> clause, value |-> value, required |-> required]

\* "No specific requirements found to check against."
NothingToCheck == [verdict |-> "INFO", clause |-> "none"]

Fail(results, finding) ==
    [pass |-> FALSE, details |-> Append(results.details, finding)]

Pass(results, finding) ==
    [results EXCEPT !.details = Append(@, finding)]

\* Check 1: water/cement ratio
check_wc(results, metrics, reqs) ==
    LET required_wc == Get(reqs, "max_wc")
        epd_wc == metrics["calculated_wc"]
    IN  IF required_wc # None /\ epd_wc # PyNone /\ required_wc < 100
        THEN IF FloatGreaterHundredths(epd_wc, required_wc)
             THEN Fail(results, Finding("FAIL", "w/c ratio", epd_wc, required_wc))
             ELSE Pass(results, Finding("PASS", "w/c ratio", epd_wc, required_wc))
        ELSE results

\* Check 2 with a FAIL line that leaves results["pass"] alone
check_cement_pass_kept(results, metrics, reqs) ==
    LET required_cement == Get(reqs, "min_cement")
        epd_cement == metrics["cement_content_kg_m3"]
    IN  IF required_cement # None /\ epd_cement # PyNone /\ required_cement > 0
        THEN IF FloatLess(epd_cement, required_cement)
             THEN Pass(results, Finding("FAIL", "cement content", epd_cement, required_cement))
             ELSE Pass(results, Finding("PASS", "cement content", epd_cement, required_cement))
        ELSE results

\* Check 2: minimum cement content
check_cement(results, metrics, reqs) ==
    LET required_cement == Get(reqs, "min_cement")
        epd_cement == metrics["cement_content_kg_m3"]
    IN  IF required_cement # None /\ epd_cement # PyNone /\ required_cement > 0
        THEN IF FloatLess(epd_cement, required_cement)
             THEN Fail(results, Finding("FAIL", "cement content", epd_cement, required_cement))
             ELSE Pass(results, Finding("PASS", "cement content", epd_cement, required_cement))
        ELSE results

\* Check 3 with a strength equal to the requirement failing
check_strength_strict(results, metrics, reqs) ==
    LET required_strength == Get(reqs, "strength_min_cyl")
        epd_strength == metrics["strength_mpa"]
    IN  IF required_strength # None /\ epd_strength # None /\ required_strength > 0
        THEN IF epd_strength <= required_strength
             THEN Fail(results, Finding("FAIL", "strength", epd_strength, required_strength))
             ELSE Pass(results, Finding("PASS", "strength", epd_strength, required_strength))
        ELSE results

\* Check 3: strength against the cylinder requirement
check_strength(results, metrics, reqs) ==
    LET required_strength == Get(reqs, "strength_min_cyl")
        epd_strength == metrics["strength_mpa"]
    IN  IF required_strength # None /\ epd_strength # None /\ required_strength > 0
        THEN IF epd_strength < required_strength
             THEN Fail(results, Finding("FAIL", "strength", epd_strength, required_strength))
             ELSE Pass(results, Finding("PASS", "strength", epd_strength, required_strength))
        ELSE results

\* Check 4: maximum aggregate size
check_dmax(results, metrics, reqs) ==
    LET required_dmax == Get(reqs, "max_aggregate_size")
        epd_dmax == metrics["max_aggregate_size"]
    IN  IF required_dmax # None /\ epd_dmax # None
        THEN IF epd_dmax > required_dmax
             THEN Fail(results, Finding("FAIL", "aggregate size", epd_dmax, required_dmax))
             ELSE Pass(results, Finding("PASS", "aggregate size", epd_dmax, required_dmax))
        ELSE results

\* the results returned with details left empty
default_detail_missing(results) == results

\* the line added when no check was made
default_detail(results) ==
    IF results.details = <<>>
    THEN [results EXCEPT !.details = Append(@, NothingToCheck)]
    ELSE results

perform_compliance_check(metrics, reqs) ==
    default_detail(
        check_dmax(
            check_strength(
                check_cement(
                    check_wc([pass |-> TRUE, details |-> <<>>], metrics, reqs),
                    metrics, reqs),
                metrics, reqs),
            metrics, reqs))

\* ------------------------------------------------------------------------
\* Product declarations
\* ------------------------------------------------------------------------
\* most entries of a mat_comp list
MaxMaterials == 2

\* a dict with key k added when the optional value o, a set of at most one
\* value, holds one
Put(d, k, o) ==
    IF o = {} THEN d
    ELSE [x \in DOMAIN d \cup {k} |-> IF x = k THEN CHOOSE v \in o : TRUE ELSE d[x]]

Declaration(density, mpa, dmax, mat_comp) ==
    Put(Put(Put(Put(<<>>, "density", density), "MPa", mpa),
            "max_aggregate_size", dmax), "mat_comp", mat_comp)

\* material names as declarations spell them
NameWater == <<"W", "a", "t", "e", "r">>

NameAgua == <<"A", "g", "u", "a">>

NameCementI == <<"C", "E", "M", "E", "N", "T", " ", "I">>

NameCemI == <<"C", "E", "M", " ", "I">>

NameSand == <<"S", "a", "n", "d">>

NameCementWater == <<"C", "e", "m", "e", "n", "t", " ", "w", "a", "t", "e", "r">>

MaterialNames == {NameWater, NameAgua, NameCementI, NameCemI, NameSand, NameCementWater}

Material(name, percentage) == [name |-> Str(name), percentage |-> percentage]

\* entries of mat_comp: named shares, and entries with a null or absent leaf
Materials ==
    { Material(n, p) : n \in MaterialNames, p \in {7, 14} }
    \cup { Material(n, None) : n \in {NameWater, NameCementI, NameSand} }
    \cup { [name |-> Str(n)] : n \in {NameWater, NameCementI} }
    \cup { [name |-> NoneValue, percentage |-> 7], [percentage |-> 7] }

MatCompLists == UNION { [1..n -> Materials] : n \in 0..MaxMaterials }

\* declarations that vary the composition
CompositionDeclarations ==
    { Declaration(density, strength[1], strength[2], mat_comp) :
        density \in {{}, {None}, {2400}},
        strength \in {<<{}, {}>>, <<{None}, {None}>>, <<{32}, {16}>>},
        mat_comp \in {{}, {NoneValue}} \cup { {List(l)} : l \in MatCompLists } }

\* the mixes of the declared products
Mixes ==
    { <<Material(NameWater, 7), Material(NameCementI, 14)>>,
      <<Material(NameAgua, 6), Material(NameCemI, 12)>>,
      <<Material(NameWater, 9), Material(NameCementI, 20), Material(NameSand, 30)>>,
      <<Material(NameWater, 8), Material(NameCementI, 6), Material(NameCemI, 4)>>,
      <<Material(NameWater, 12), Material(NameCementI, 10)>>,
      <<Material(NameSand, 40)>> }

\* declarations that vary the declared values
ValueDeclarations ==
    { Declaration(density, mpa, dmax, mat_comp) :
        density \in {{None}, {2400}, {2500}},
        mpa \in {{None}, {20}, {30}, {32}},
        dmax \in {{}, {16}, {32}},
        mat_comp \in {{}} \cup { {List(l)} : l \in Mixes } }

\* the scenario one product composition after the other is checked against
CompositionCases ==
    /\ exposure_classes = List(<<Str("XC4")>>)
    /\ regulation_data = [c \in TableClasses |-> FullRow(c)]
    /\ user_constraints = [max_w_c_ratio |-> 45, min_cement_content |-> None,
                           min_mpa_strength |-> None]
    /\ drawing_reqs = PyNone
    /\ epd_data \in CompositionDeclarations

\* scenarios and declared values varied together
ValueCases ==
    /\ exposure_classes \in {List(<<>>), List(<<Str("XC1")>>), List(<<Str("XC4")>>)}
    /\ regulation_data \in { [c \in TableClasses |-> FullRow(c)],
                             [c \in TableClasses |-> SparseRow(c)] }
    /\ user_constraints \in UserInputs
    /\ drawing_reqs = PyNone
    /\ epd_data \in ValueDeclarations

\* several classes listed in either order, directly, nested and by a drawing
OrderCases ==
    /\ exposure_classes \in
         { List(<<Str("XC1"), Str("XC4")>>), List(<<Str("XC4"), Str("XC1")>>),
           List(<<Str("XC4"), List(<<Str("XC1")>>), Str("XX9")>>),
           List(<<Str("XC4")>>) }
    /\ regulation_data \in { [c \in TableClasses |-> FullRow(c)],
                             [c \in TableClasses |-> SparseRow(c)] }
    /\ user_constraints \in {PyNone, [max_w_c_ratio |-> 55, min_cement_content |-> None,
                                      min_mpa_strength |-> None]}
    /\ drawing_reqs \in
         { PyNone,
           [element_specific_reqs |-> [k \in DrawingKeys |-> None],
            drawing_exposure_classes |-> List(<<Str("XC1")>>)] }
    /\ epd_data \in
         { Declaration({2400}, {30}, {16},
                       {List(<<Material(NameWater, 7), Material(NameCementI, 14)>>)}),
           Declaration({2400}, {20}, {},
                       {List(<<Material(NameCementI, 10), Material(NameWater, 6)>>)}) }

\* ------------------------------------------------------------------------
\* The assessment of one product: requirements, metrics, verdict
\* ------------------------------------------------------------------------
InitAssessment ==
    /\ CompositionCases \/ ValueCases \/ OrderCases
    /\ final_reqs = PyNone
    /\ pc = "call"
    /\ epd_metrics = PyNone
    /\ compliance_result = PyNone
    /\ NoSession

\* the metrics derived with the composition popped from the declaration
Derive_popping ==
    /\ pc = "done"
    /\ epd_data # PyNone
    /\ epd_metrics' = calculate_epd_metrics(epd_data)
    /\ epd_data' = [k \in DOMAIN epd_data \ {"mat_comp"} |-> epd_data[k]]
    /\ pc' = IF IsRaised(epd_metrics') THEN "raised" ELSE "derived"
    /\ UNCHANGED <<exposure_classes, regulation_data, user_constraints, drawing_reqs,
                   final_reqs, compliance_result, session>>

\* epd_metrics = calculate_epd_metrics(epd_data); an exception ends the
\* assessment of the product
Derive ==
    /\ pc = "done"
    /\ epd_data # PyNone
    /\ epd_metrics' = calculate_epd_metrics(epd_data)
    /\ pc' = IF IsRaised(epd_metrics') THEN "raised" ELSE "derived"
    /\ UNCHANGED <<exposure_classes, regulation_data, user_constraints, drawing_reqs,
                   final_reqs, epd_data, compliance_result, session>>

\* compliance_result = perform_compliance_check(epd_metrics, final_reqs)
Check ==
    /\ pc = "derived"
    /\ compliance_result' = perform_compliance_check(epd_metrics, final_reqs)
    /\ pc' = "checked"
    /\ UNCHANGED <<exposure_classes, regulation_data, user_constraints, drawing_reqs,
                   final_reqs, epd_data, epd_metrics, session>>

NextAssessment == Call \/ Derive \/ Check

SpecAssessment == InitAssessment /\ [][NextAssessment]_vars

\* ------------------------------------------------------------------------
\* Vocabulary of the verdict properties
\* ------------------------------------------------------------------------
\* the verdict of the product has been returned
Checked == pc = "checked"

\* the four clauses in the order of the checks
ClauseNames == <<"w/c ratio", "cement content", "strength", "aggregate size">>

\* the metric of a clause is null
MetricIsNull(c) ==
    CASE c = "w/c ratio" -> epd_metrics.calculated_wc = PyNone
      [] c = "cement content" -> epd_metrics.cement_content_kg_m3 = PyNone
      [] c = "strength" -> epd_metrics.strength_mpa = None
      [] c = "aggregate size" -> epd_metrics.max_aggregate_size = None

\* the requirement value of a clause, the cylinder value for strength
RequiredValue(c) ==
    CASE c = "w/c ratio" -> Get(final_reqs, "max_wc")
      [] c = "cement content" -> Get(final_reqs, "min_cement")
      [] c = "strength" -> Get(final_reqs, "strength_min_cyl")
      [] c = "aggregate size" -> Get(final_reqs, "max_aggregate_size")

\* the value that stands for "unconstrained" in a clause
Marker(c) ==
    CASE c = "w/c ratio" -> 100
      [] c = "cement content" -> 0
      [] c = "strength" -> 0
      [] c = "aggregate size" -> None

\* requirement and metric are non-null and the requirement is not the marker
Checkable(c) ==
    /\ RequiredValue(c) # None
    /\ RequiredValue(c) # Marker(c)
    /\ ~MetricIsNull(c)

\* the metric is on the allowed side of the requirement, equality included
Meets(c) ==
    LET r == RequiredValue(c) IN
    CASE c = "w/c ratio" ->
           LET x == epd_metrics.calculated_wc
           IN  100 * x.num < r * x.den \/ (100 * x.num = r * x.den /\ x.off <= 0)
      [] c = "cement content" ->
           LET x == epd_metrics.cement_content_kg_m3
           IN  x.num > r * x.den \/ (x.num = r * x.den /\ x.off >= 0)
      [] c = "strength" -> epd_metrics.strength_mpa >= r
      [] c = "aggregate size" -> epd_metrics.max_aggregate_size <= r

Details == compliance_result.details

\* positions of the findings of a clause
FindingsOf(c) == {i \in DOMAIN Details : Details[i].clause = c}

HasFail == \E i \in DOMAIN Details : Details[i].verdict = "FAIL"

\* ------------------------------------------------------------------------
\* C11  The verdict is the conjunction of the checked clauses: pass is false
\*      exactly when some finding is a FAIL, and a clause whose metric is
\*      null adds no finding.
\* ------------------------------------------------------------------------
C11_VerdictIsConjunction ==
    Checked =>
        /\ compliance_result.pass = ~HasFail
        /\ \A i \in DOMAIN ClauseNames :
              MetricIsNull(ClauseNames[i]) => FindingsOf(ClauseNames[i]) = {}

\* a product with a composition that names no cement fails on another clause
\* while both composition clauses are skipped
C11_Witness ==
    /\ Checked
    /\ "mat_comp" \in DOMAIN epd_data
    /\ MetricIsNull("w/c ratio") /\ MetricIsNull("cement content")
    /\ final_reqs.max_wc < 100 /\ final_reqs.min_cement > 0
    /\ HasFail
    /\ compliance_result.pass = FALSE

\* ------------------------------------------------------------------------
\* C12  When no clause is checkable the verdict is pass = true with exactly
\*      one informational finding; details is never empty and pass is
\*      always a boolean.
\* ------------------------------------------------------------------------
C12_NothingToCheck ==
    Checked =>
        /\ (\A i \in DOMAIN ClauseNames : ~Checkable(ClauseNames[i])) =>
              (compliance_result.pass = TRUE /\ Details = <<NothingToCheck>>)
        /\ Details # <<>>
        /\ compliance_result.pass \in BOOLEAN

\* a product with every metric known meets an entirely unconstrained record
C12_Witness ==
    /\ Checked
    /\ \A i \in DOMAIN ClauseNames :
          ~MetricIsNull(ClauseNames[i]) /\ RequiredValue(ClauseNames[i]) = Marker(ClauseNames[i])
    /\ Details = <<NothingToCheck>>

\* ------------------------------------------------------------------------
\* C13  Each clause adds one finding when it is checkable and none otherwise,
\*      PASS when the metric is on the allowed side of the requirement
\*      (equality passes) and FAIL otherwise, in the order w/c, cement,
\*      strength, aggregate size.
\* ------------------------------------------------------------------------
RECURSIVE ExpectedFindings(_)
ExpectedFindings(i) ==
    IF i > Len(ClauseNames) THEN <<>>
    ELSE (IF Checkable(ClauseNames[i])
          THEN << <<IF Meets(ClauseNames[i]) THEN "PASS" ELSE "FAIL", ClauseNames[i]>> >>
          ELSE <<>>) \o ExpectedFindings(i + 1)

\* verdict and clause of the findings of a comparison, in order
ComparedFindings ==
    LET compared == SelectSeq(Details, LAMBDA f : f.verdict # "INFO")
    IN  [i \in DOMAIN compared |-> <<compared[i].verdict, compared[i].clause>>]

C13_PerClauseComparison ==
    Checked => ComparedFindings = ExpectedFindings(1)

\* all four clauses are compared, three of them at equality
C13_Witness ==
    /\ Checked
    /\ Len(Details) = 4
    /\ 100 * epd_metrics.calculated_wc.num = final_reqs.max_wc * epd_metrics.calculated_wc.den
    /\ epd_metrics.strength_mpa = final_reqs.strength_min_cyl
    /\ epd_metrics.max_aggregate_size = final_reqs.max_aggregate_size
    /\ compliance_result.pass = TRUE

\* ------------------------------------------------------------------------
\* C14  The strength of the product is compared against strength_min_cyl
\*      when the record defines it and against strength_min_cube when it
\*      defines only the cube value: a positive strength_min_cube without a
\*      cylinder value gives a strength finding for a known strength.
\* ------------------------------------------------------------------------
StrengthComparedWith(r) ==
    \E i \in FindingsOf("strength") : Details[i].required = r

CylinderDefined ==
    Get(final_reqs, "strength_min_cyl") # None /\ Get(final_reqs, "strength_min_cyl") # 0

CubeDefined ==
    Get(final_reqs, "strength_min_cube") # None /\ Get(final_reqs, "strength_min_cube") # 0

C14_CylinderPreferredOverCube ==
    Checked /\ epd_metrics.strength_mpa # None =>
        /\ CylinderDefined => StrengthComparedWith(final_reqs.strength_min_cyl)
        /\ ~CylinderDefined /\ CubeDefined =>
              StrengthComparedWith(final_reqs.strength_min_cube)

\* ------------------------------------------------------------------------
\* Vocabulary of the metric properties
\* ------------------------------------------------------------------------
\* calculate_epd_metrics has returned a record
Derived == pc \in {"derived", "checked"}

\* the entries of mat_comp, none when the key is absent
Composition == IF "mat_comp" \in DOMAIN epd_data THEN epd_data["mat_comp"].v ELSE <<>>

\* the name of an entry in lower case, empty when the entry has none
EntryName(m) == IF "name" \in DOMAIN m THEN lower(m["name"].v) ELSE <<>>

\* the percentage of an entry, zero when the entry has none
EntryShare(m) == IF "percentage" \in DOMAIN m THEN m["percentage"] ELSE 0

\* the sum of the percentages at the positions I of the composition
RECURSIVE ShareSum(_)
ShareSum(I) ==
    IF I = {} THEN 0
    ELSE LET i == CHOOSE j \in I : TRUE
         IN  EntryShare(Composition[i]) + ShareSum(I \ {i})

NamesWater(m) == Contains(water, EntryName(m)) \/ Contains(agua, EntryName(m))

WaterEntries == {i \in DOMAIN Composition : NamesWater(Composition[i])}

\* the entries whose name contains 'cement'
CementNamedEntries == {i \in DOMAIN Composition : Contains(cement, EntryName(Composition[i]))}

\* the entries with 'cement' or 'cem ' in a name that names no water
CementEntries ==
    {i \in DOMAIN Composition :
        /\ ~NamesWater(Composition[i])
        /\ \/ Contains(cement, EntryName(Composition[i]))
           \/ Contains(cem, EntryName(Composition[i]))}

\* calculated_wc is the quotient of the sums over W and C, null for a zero divisor
RatioOf(W, C) ==
    IF ShareSum(C) = 0 THEN epd_metrics.calculated_wc = PyNone
    ELSE /\ epd_metrics.calculated_wc # PyNone
         /\ epd_metrics.calculated_wc.num * ShareSum(C) =
               ShareSum(W) * epd_metrics.calculated_wc.den
         /\ epd_metrics.calculated_wc.off = 0

\* ------------------------------------------------------------------------
\* C15  calculated_wc is the sum of the percentages of the entries named
\*      'water' or 'agua' (in any case) divided by the sum of the
\*      percentages of the entries named 'cement', summed over all matching
\*      entries; it is null when the cement sum is zero or mat_comp is absent.
\* ------------------------------------------------------------------------
C15_WaterCementRatio == Derived => RatioOf(WaterEntries, CementNamedEntries)

\* C15 as the code has it: the cement sum runs over the entries whose name
\* contains 'cement' or 'cem ' and neither 'water' nor 'agua'.
C15_WaterCementRatioOfCementEntries == Derived => RatioOf(WaterEntries, CementEntries)

\* water over a cement sum of two entries, one of them named by 'cem ' only
C15_Witness ==
    /\ Derived
    /\ epd_metrics.calculated_wc # PyNone
    /\ epd_metrics.calculated_wc.num > 0
    /\ Cardinality(CementEntries) = 2
    /\ CementEntries # CementNamedEntries

C17_NoFailureMode == pc # "raised" /\ ~IsRaised(epd_metrics)

\* ------------------------------------------------------------------------
\* C20  Classes {XC4}, the row XC4 = {max_wc 0.50, min_cement 300,
\*      strength_min_cyl 30, strength_min_cube 37}, the user constraint
\*      max_w_c_ratio 0.45 and the declaration {density 2400, MPa 32,
\*      Water 7 %, CEMENT I 14 %} give max_wc 0.45 and a null
\*      max_aggregate_size, calculated_wc = 0.5 and cement_content_kg_m3 =
\*      336, and pass = false with the findings w/c FAIL, cement content
\*      PASS, strength PASS in that order and no aggregate-size finding.
\* ------------------------------------------------------------------------
Scenario ==
    /\ exposure_classes = List(<<Str("XC4")>>)
    /\ "XC4" \in DOMAIN regulation_data
    /\ regulation_data["XC4"] = [max_wc |-> 50, min_cement |-> 300,
                                 strength_min_cyl |-> 30, strength_min_cube |-> 37]
    /\ user_constraints = [max_w_c_ratio |-> 45, min_cement_content |-> None,
                           min_mpa_strength |-> None]
    /\ drawing_reqs = PyNone
    /\ epd_data = [density |-> 2400, MPa |-> 32,
                   mat_comp |-> List(<<Material(NameWater, 7),
                                       Material(NameCementI, 14)>>)]

\* the outcome of the scenario but for the cement content
ScenarioOutcome ==
    /\ final_reqs.max_wc = 45
    /\ final_reqs.max_aggregate_size = None
    /\ epd_metrics.calculated_wc = [num |-> 1, den |-> 2, off |-> 0]
    /\ compliance_result.pass = FALSE
    /\ ComparedFindings = << <<"FAIL", "w/c ratio">>, <<"PASS", "cement content">>,
                             <<"PASS", "strength">> >>

C20_EndToEnd ==
    Scenario /\ Checked =>
        /\ ScenarioOutcome
        /\ epd_metrics.cement_content_kg_m3 = [num |-> 336, den |-> 1, off |-> 0]

\* C20 as the code has it: the cement content is the double (14 / 100) * 2400,
\* the double next above 336 (336.00000000000006).
C20_EndToEndRounded ==
    Scenario /\ Checked =>
        /\ ScenarioOutcome
        /\ epd_metrics.cement_content_kg_m3 = [num |-> 336, den |-> 1, off |-> 1]

C20_Witness == Scenario /\ Checked /\ Len(Details) = 3

\* ------------------------------------------------------------------------
\* The session of the app: uploaded documents, extraction, full check
\* ------------------------------------------------------------------------
\* most documents of a batch
MaxDocuments == 2

\* os.path.splitext(filename)[0] of a file name without directories: the
\* name up to its last dot, dots that lead the name apart
splitext_root(filename) ==
    LET dots == {i \in DOMAIN filename :
                    filename[i] = "." /\ \E j \in 1..(i - 1) : filename[j] # "."}
    IN  IF dots = {} THEN filename
        ELSE SubSeq(filename, 1, (CHOOSE i \in dots : \A j \in dots : j <= i) - 1)

\* the path of the extraction output of a document in EPD_OUTPUT_DIR
json_path(filename) == splitext_root(filename) \o <<".", "j", "s", "o", "n">>

\* load_regulation_file: FileNotFoundError and JSONDecodeError become error
\* records; the exceptions of open and of the decoding of the bytes leave it
load_regulation_file(file) ==
    IF file.t = "missing" THEN [error |-> "Regulation file not found"]
    ELSE IF file.t = "malformed" THEN [error |-> "Error decoding JSON"]
    ELSE IF file.t = "undecodable" THEN Raise("UnicodeDecodeError")
    ELSE IF file.t = "directory" THEN Raise("IsADirectoryError")
    ELSE file.v

\* the orders in which n concurrent tasks complete: the order of their
\* creation and its reverse
CompletionOrders(n) == { [k \in 1..n |-> k], [k \in 1..n |-> n + 1 - k] }

\* run_async_analysis: the k-th task to complete is task completion[k], and
\* asyncio.gather puts what it returned at the position of that task
run_async_analysis(filenames, returned, completion) ==
    [i \in DOMAIN filenames |->
        LET k == CHOOSE c \in DOMAIN completion : completion[c] = i
        IN  returned[filenames[completion[k]]]]

\* dict(zip(names, results)): a repeated name keeps its last result
zip_dict(names, results) ==
    [n \in Range(names) |->
        results[CHOOSE i \in DOMAIN names :
                    names[i] = n /\ \A j \in DOMAIN names : names[j] = n => j <= i]]

\* a file written into a directory
Write(files, path, content) ==
    [p \in DOMAIN files \cup {path} |-> IF p = path THEN content ELSE files[p]]

\* the content of a file that is not JSON, of the given length: a file
\* opened for writing and not yet written is empty
NotJson(length) == [not_json |-> TRUE, length |-> length]

IsNotJson(content) == "not_json" \in DOMAIN content

\* the number of decimal digits of a natural number
RECURSIVE Digits(_)
Digits(n) == IF n < 10 THEN 1 ELSE 1 + Digits(n \div 10)

\* the length of the lines json.dump(..., indent=4) writes for the items of
\* mat_comp: the braces, the name, the percentage and the separator
RECURSIVE dumped_items_length(_)
dumped_items_length(items) ==
    IF items = <<>> THEN 0
    ELSE 10 + (24 + Len(Head(items).name.v)) + (27 + Digits(Head(items).percentage))
         + 9 + (IF Len(items) = 1 THEN 1 ELSE 2)
         + dumped_items_length(Tail(items))

\* the length of the text json.dump(result_dict, f, indent=4) writes for an
\* extraction result with the keys density, MPa and mat_comp
dumped_length(result) ==
    2 + (15 + Digits(result.density) + 2) + (11 + Digits(result.MPa) + 2)
      + 16 + (IF result.mat_comp.t = "none" THEN 4
              ELSE IF result.mat_comp.v = <<>> THEN 2
              ELSE 2 + dumped_items_length(result.mat_comp.v) + 5)
      + 2

\* the body of the loop of the full check for one document: the verdict, the
\* warning for a missing output file, or the error for any other exception
\* (json.load of a file that is not JSON, or the metrics)
assess(filename, files, reqs) ==
    IF json_path(filename) \notin DOMAIN files
    THEN [file |-> filename, outcome |-> "warning"]
    ELSE IF IsNotJson(files[json_path(filename)])
    THEN [file |-> filename, outcome |-> "error", exception |-> "JSONDecodeError"]
    ELSE LET metrics == calculate_epd_metrics(files[json_path(filename)])
         IN  IF IsRaised(metrics)
             THEN [file |-> filename, outcome |-> "error", exception |-> metrics.raised]
             ELSE [file |-> filename, outcome |-> "verdict", epd_metrics |-> metrics,
                   compliance_result |-> perform_compliance_check(metrics, reqs)]

\* what extract_epd_data_async returns for a document
ErrorResult == [error |-> "An error occurred during the async API call"]

\* what the extraction of a document and the analysis of a drawing return
\* when the file cannot be read: it is not in its input folder, or it holds
\* no document
FailedConversion == [error |-> "Failed to convert PDF to images"]

ProductPassing ==
    [density |-> 2500, MPa |-> 32,
     mat_comp |-> List(<<Material(NameAgua, 6), Material(NameCemI, 12)>>)]

ProductFailing ==
    [density |-> 2400, MPa |-> 20,
     mat_comp |-> List(<<Material(NameWater, 7), Material(NameCementI, 14)>>)]

ProductBroken == [density |-> 2400, MPa |-> 32, mat_comp |-> NoneValue]

ExtractionResults == {ErrorResult, ProductPassing, ProductFailing, ProductBroken}

\* names of uploaded documents
DocumentNames ==
    { <<"a", ".", "p", "d", "f">>, <<"b", ".", "p", "d", "f">>,
      <<"a", ".", "P", "D", "F">> }

\* batches of documents with different names
Batches ==
    UNION { {b \in [1..n -> DocumentNames] : \A i, j \in 1..n : b[i] = b[j] => i = j}
            : n \in 1..MaxDocuments }

\* the file of the selected regulation: no file, a text that is not JSON,
\* bytes that are not UTF-8, a directory of that name, or a table
RegulationFiles ==
    { [t |-> "missing"], [t |-> "malformed"], [t |-> "undecodable"],
      [t |-> "directory"],
      [t |-> "json", v |-> [c \in TableClasses |-> FullRow(c)]] }

\* names of uploaded drawings
DrawingNames == {"d1.pdf", "d2.pdf", "d3.pdf"}

\* batches of drawings with different names
DrawingBatches ==
    UNION { {b \in [1..n -> DrawingNames] : \A i, j \in 1..n : b[i] = b[j] => i = j}
            : n \in 1..MaxDocuments }

\* what analyze_drawing_with_context returns for a drawing
DrawingStrict ==
    [element_specific_reqs |->
        [strength_class_mpa |-> 37, min_cement_content |-> 340,
         max_w_c_ratio |-> 40, max_aggregate_size |-> 16],
     drawing_exposure_classes |-> List(<<Str("XC1")>>)]

DrawingLoose ==
    [element_specific_reqs |->
        [strength_class_mpa |-> None, min_cement_content |-> None,
         max_w_c_ratio |-> None, max_aggregate_size |-> None],
     drawing_exposure_classes |-> List(<<Str("XC4")>>)]

DrawingResults == {DrawingStrict, DrawingLoose, FailedExtraction}

\* next(iter(d.values()), None): the value inserted first, of a dict in
\* insertion order as its list of items
next_iter_values(d) == IF d = <<>> THEN PyNone ELSE d[1].result

\* the batches of product documents put into the uploader: a.pdf first, the
\* documents in the order b.pdf, a.PDF after it
UploadedBatches ==
    { b \in Batches :
        /\ b[1] = <<"a", ".", "p", "d", "f">>
        /\ \A i \in DOMAIN b : i > 1 =>
             /\ b[i] # <<"a", ".", "p", "d", "f">>
             /\ b[i] = <<"b", ".", "p", "d", "f">> => i = 2 }

\* the batches of drawings put into the uploader: d1.pdf, d2.pdf, d3.pdf in
\* this order
UploadedDrawings ==
    { b \in DrawingBatches :
        \A i \in DOMAIN b : b[i] = <<"d1.pdf", "d2.pdf", "d3.pdf">>[i] }

\* the file of a regulation that parses
EN206 == [t |-> "json", v |-> [c \in TableClasses |-> FullRow(c)]]

\* what determine_exposure_classes_with_llm returns for the description
ExposureAnswers ==
    { [assigned_exposure_classes |-> List(<<Str("XC4")>>)],
      [assigned_exposure_classes |-> List(<<Str("XC1")>>)],
      [error |-> "An API error occurred"] }

\* what extract_custom_constraints returns for the description
ConstraintAnswers ==
    { [max_w_c_ratio |-> 45, min_cement_content |-> None, min_mpa_strength |-> None],
      FailedExtraction }

\* the output files another session writes into the shared output folder
OtherOutputs ==
    { [path |-> json_path(<<"a", ".", "p", "d", "f">>), content |-> ProductFailing] }

\* the scenario of the sessions that are about something else: the class XC4
\* and a w/c ceiling of the user
OneExposureAnswer == { [assigned_exposure_classes |-> List(<<Str("XC4")>>)] }
OneConstraintAnswer ==
    { [max_w_c_ratio |-> 45, min_cement_content |-> None, min_mpa_strength |-> None] }
OneDocument == { << <<"a", ".", "p", "d", "f">> >> }

OneDrawing == { <<"d1.pdf">> }
TwoDocuments == { << <<"a", ".", "p", "d", "f">>, <<"b", ".", "p", "d", "f">> >> }

\* what a session has around it: the files of the listed regulations, the
\* batches of product documents and of drawings its user uploads, whether
\* the prompt file of extract_custom_constraints exists, what the two calls
\* on the description return, what the extraction of a document that is
\* read returns, the output files and the input files that other sessions
\* write into the shared folders. A session is about its documents, its
\* drawings, its regulations, its scenario or a missing prompt file, or
\* about the drawings or the documents that other sessions upload and the
\* results they save under the names of its own.
AtHand ==
    { [available_regulations |-> {EN206}, epd_files |-> UploadedBatches,
       drawing_files |-> {}, constraints_prompt |-> TRUE,
       exposure_answers |-> OneExposureAnswer,
       constraint_answers |-> OneConstraintAnswer,
       extraction_results |-> {ErrorResult, ProductPassing, ProductBroken},
       other_outputs |-> {}, other_epds |-> {}, other_drawings |-> {}],
      [available_regulations |-> {EN206}, epd_files |-> OneDocument,
       drawing_files |-> UploadedDrawings, constraints_prompt |-> TRUE,
       exposure_answers |-> OneExposureAnswer \cup {[error |-> "An API error occurred"]},
       constraint_answers |-> OneConstraintAnswer,
       extraction_results |-> {ErrorResult}, other_outputs |-> {},
       other_epds |-> {}, other_drawings |-> {}],
      [available_regulations |-> {EN206}, epd_files |-> OneDocument,
       drawing_files |-> OneDrawing, constraints_prompt |-> TRUE,
       exposure_answers |-> OneExposureAnswer,
       constraint_answers |-> OneConstraintAnswer,
       extraction_results |-> {ErrorResult}, other_outputs |-> {},
       other_epds |-> {}, other_drawings |-> {"d1.pdf"}],
      [available_regulations |-> RegulationFiles, epd_files |-> OneDocument,
       drawing_files |-> {}, constraints_prompt |-> TRUE,
       exposure_answers |-> OneExposureAnswer,
       constraint_answers |-> OneConstraintAnswer,
       extraction_results |-> {ErrorResult, ProductPassing},
       other_outputs |-> {}, other_epds |-> {}, other_drawings |-> {}],
      [available_regulations |-> {EN206}, epd_files |-> OneDocument,
       drawing_files |-> {}, constraints_prompt |-> TRUE,
       exposure_answers |-> ExposureAnswers,
       constraint_answers |-> ConstraintAnswers,
       extraction_results |-> {ErrorResult, ProductPassing},
       other_outputs |-> {}, other_epds |-> {}, other_drawings |-> {}],
      [available_regulations |-> {EN206}, epd_files |-> OneDocument,
       drawing_files |-> {}, constraints_prompt |-> FALSE,
       exposure_answers |-> ExposureAnswers,
       constraint_answers |-> ConstraintAnswers,
       extraction_results |-> {ErrorResult, ProductPassing},
       other_outputs |-> {}, other_epds |-> {}, other_drawings |-> {}],
      [available_regulations |-> {EN206}, epd_files |-> OneDocument,
       drawing_files |-> {}, constraints_prompt |-> TRUE,
       exposure_answers |-> OneExposureAnswer,
       constraint_answers |-> OneConstraintAnswer,
       extraction_results |-> {ErrorResult, ProductPassing},
       other_outputs |-> OtherOutputs,
       other_epds |-> {<<"a", ".", "p", "d", "f">>}, other_drawings |-> {}] }

\* the texts typed into the field of the scenario description
Descriptions == {"scenario"}

\* {"input_description": custom_info, **exp_class_result}
with_input_description(description, exp_class_result) ==
    [k \in {"input_description"} \cup DOMAIN exp_class_result |->
        IF k \in DOMAIN exp_class_result THEN exp_class_result[k] ELSE description]

\* lines 115-121: the messages st.error shows for the error records of the
\* two calls
scenario_errors(exp_class_result, user_constraints_result) ==
    LET shown ==
          (IF "error" \in DOMAIN exp_class_result
           THEN <<[message |-> "Exposure class error",
                   error |-> exp_class_result["error"]]>> ELSE <<>>)
          \o (IF "error" \in DOMAIN user_constraints_result
              THEN <<[message |-> "Custom constraint error",
                      error |-> user_constraints_result["error"]]>> ELSE <<>>)
    IN  IF shown = <<>> THEN PyNone ELSE [messages |-> shown]

\* a file of an input folder that holds the bytes of a document: a file
\* opened for writing and not yet written is empty, and fitz.open of a file
\* that is not there or holds no document raises
readable(files, name) == name \in DOMAIN files /\ files[name] = "pdf"

\* custom_info_result.get("assigned_exposure_classes", [])
assigned_exposure_classes(result) ==
    IF "assigned_exposure_classes" \in DOMAIN result
    THEN result["assigned_exposure_classes"] ELSE List(<<>>)

\* the names of analysis_results whose result is saved, in the order of the
\* loop of lines 197-199
RECURSIVE without_error(_, _)
without_error(names, results) ==
    IF names = <<>> THEN <<>>
    ELSE (IF "error" \notin DOMAIN results[Head(names)] THEN <<Head(names)>> ELSE <<>>)
         \o without_error(Tail(names), results)

\* a file removed from a folder
Remove(files, path) == [p \in DOMAIN files \ {path} |-> files[p]]

\* the file that a save has open: after its removal from the folder the file
\* of the handle is no file of the folder any more
unlinked(handle, folder, path) ==
    IF handle # PyNone /\ handle.folder = folder /\ handle.path = path
    THEN [handle EXCEPT !.linked = FALSE] ELSE handle

\* f.write(uploaded_file.getbuffer()) through a handle opened with 'wb':
\* nothing of the folder changes when the file was removed since; else the
\* bytes are written from the start of the file, and over bytes that another
\* handle has written since the opening they give the document or, when a
\* longer document keeps its end, no document
written(files, handle) ==
    IF ~handle.linked THEN {files}
    ELSE IF files[handle.path] = "pdf"
    THEN {Write(files, handle.path, "pdf"), Write(files, handle.path, "not_pdf")}
    ELSE {Write(files, handle.path, "pdf")}

\* json.dump through a handle opened with 'w': nothing of the folder changes
\* when the file was removed since; else the text is written from the start
\* of the file over what another handle has written since the opening, and
\* a longer text that was there keeps its end
dump(files, handle, result) ==
    IF ~handle.linked THEN files
    ELSE LET there == files[handle.path]
             length == IF IsNotJson(there) THEN there.length ELSE dumped_length(there)
         IN  Write(files, handle.path,
                   IF dumped_length(result) >= length THEN result ELSE NotJson(length))

\* where a script run is after lines 75-80: at the handler of the button that
\* was pressed, or at its end when no button of the main panel was
handler_pc(button) ==
    IF button \in {"determine", "analyse", "extract", "check"} THEN button ELSE "idle"

\* the names the handler of the pressed button goes through
handler_todo(button, epd_names, drawing_names) ==
    IF button = "analyse" THEN drawing_names
    ELSE IF button = "extract" THEN epd_names
    ELSE <<>>

\* a script run begins, for the pressed button or for a widget that changed:
\* what the last run computed and showed is gone, and lines 75-80 save the
\* files of the uploaders one after another, the product documents first
script_run(button, epds, drawings) ==
    /\ clicked' = button
    /\ exposure_classes' = PyNone
    /\ drawing_reqs' = PyNone
    /\ regulation_data' = PyNone
    /\ final_reqs' = PyNone
    /\ assessments' = <<>>
    /\ shown_error' = PyNone
    /\ task_results' = <<>>
    /\ all_drawing_results' = <<>>
    /\ listing' = {}
    /\ IF epds # <<>>
       THEN /\ todo' = epds
            /\ pc' = "saving_epds"
       ELSE IF drawings # <<>>
       THEN /\ todo' = drawings
            /\ pc' = "saving_drawings"
       ELSE /\ todo' = handler_todo(button, saved_epd_names, saved_drawing_names)
            /\ pc' = handler_pc(button)

\* the session takes an interaction: no script run is under way, or the run
\* is where Streamlit ends it for the next one: before the handler of the
\* pressed button, between the two steps of the scenario analysis, between
\* two drawings of the drawing analysis or between two documents of the full
\* check
Waiting ==
    pc \in {"idle", "assessed", "stopped", "determine", "constraints", "analyse",
            "extract", "check", "checking"}

\* the first script run of a session: the folders are cleared, the session
\* holds no names, no results and no scenario, the uploaders and the field
\* of the description are empty and a regulation is selected
InitSession ==
    /\ at_hand \in AtHand
    /\ regulation_file \in at_hand.available_regulations
    /\ epd_files = <<>>
    /\ drawing_files = <<>>
    /\ custom_info = ""
    /\ saved_epd_names = <<>>
    /\ saved_drawing_names = <<>>
    /\ analysis_results = <<>>
    /\ custom_info_result = PyNone
    /\ user_constraints = PyNone
    /\ drawing_analysis_results = <<>>
    /\ epd_input_dir = <<>>
    /\ drawing_input_dir = <<>>
    /\ output_dir = <<>>
    /\ open_file = PyNone
    /\ other_open_file = PyNone
    /\ clicked = "none"
    /\ listing = {}
    /\ all_drawing_results = <<>>
    /\ task_results = <<>>
    /\ todo = <<>>
    /\ exposure_classes = PyNone
    /\ drawing_reqs = PyNone
    /\ regulation_data = PyNone
    /\ final_reqs = PyNone
    /\ assessments = <<>>
    /\ shown_error = PyNone
    /\ epd_data = PyNone
    /\ epd_metrics = PyNone
    /\ compliance_result = PyNone
    /\ pc = "idle"

\* a description is typed into the field of the scenario: the script runs
\* again
EnterCustomInfo ==
    /\ Waiting
    /\ \E description \in Descriptions \ {custom_info} : custom_info' = description
    /\ script_run("none", epd_files, drawing_files)
    /\ UNCHANGED <<user_constraints, epd_data, epd_metrics,
                   compliance_result, saved_epd_names, analysis_results,
                   output_dir, regulation_file, saved_drawing_names,
                   drawing_analysis_results, custom_info_result, epd_files,
                   drawing_files, epd_input_dir, drawing_input_dir,
                   open_file, other_open_file, at_hand>>

\* another regulation is selected: the script runs again
SelectRegulation ==
    /\ Waiting
    /\ \E regulation \in at_hand.available_regulations \ {regulation_file} :
         regulation_file' = regulation
    /\ script_run("none", epd_files, drawing_files)
    /\ UNCHANGED <<user_constraints, epd_data, epd_metrics,
                   compliance_result, saved_epd_names, analysis_results,
                   output_dir, saved_drawing_names,
                   drawing_analysis_results, custom_info_result, epd_files,
                   drawing_files, custom_info, epd_input_dir,
                   drawing_input_dir, open_file, other_open_file, at_hand>>

\* the content of the uploader of product documents changes: the script
\* runs again
UploadEpdFiles ==
    /\ Waiting
    /\ \E uploaded \in (at_hand.epd_files \cup {<<>>}) \ {epd_files} :
         /\ epd_files' = uploaded
         /\ script_run("none", uploaded, drawing_files)
    /\ UNCHANGED <<user_constraints, epd_data, epd_metrics,
                   compliance_result, saved_epd_names, analysis_results,
                   output_dir, regulation_file, saved_drawing_names,
                   drawing_analysis_results, custom_info_result,
                   drawing_files, custom_info, epd_input_dir,
                   drawing_input_dir, open_file, other_open_file, at_hand>>

\* the content of the uploader of drawings changes: the script runs again
UploadDrawingFiles ==
    /\ Waiting
    /\ \E uploaded \in (at_hand.drawing_files \cup {<<>>}) \ {drawing_files} :
         /\ drawing_files' = uploaded
         /\ script_run("none", epd_files, uploaded)
    /\ UNCHANGED <<user_constraints, epd_data, epd_metrics,
                   compliance_result, saved_epd_names, analysis_results,
                   output_dir, regulation_file, saved_drawing_names,
                   drawing_analysis_results, custom_info_result, epd_files,
                   custom_info, epd_input_dir, drawing_input_dir, open_file,
                   other_open_file, at_hand>>

\* the button "Determine user-induced requirements" is pressed: the script
\* runs again, to the handler of the button
ClickDetermine ==
    /\ Waiting
    /\ custom_info # ""
    /\ script_run("determine", epd_files, drawing_files)
    /\ UNCHANGED <<user_constraints, epd_data, epd_metrics,
                   compliance_result, saved_epd_names, analysis_results,
                   output_dir, regulation_file, saved_drawing_names,
                   drawing_analysis_results, custom_info_result, epd_files,
                   drawing_files, custom_info, epd_input_dir,
                   drawing_input_dir, open_file, other_open_file, at_hand>>

\* the button "Analyse drawings with user-defined context" is pressed
ClickAnalyseDrawings ==
    /\ Waiting
    /\ saved_drawing_names # <<>>
    /\ custom_info_result # PyNone
    /\ script_run("analyse", epd_files, drawing_files)
    /\ UNCHANGED <<user_constraints, epd_data, epd_metrics,
                   compliance_result, saved_epd_names, analysis_results,
                   output_dir, regulation_file, saved_drawing_names,
                   drawing_analysis_results, custom_info_result, epd_files,
                   drawing_files, custom_info, epd_input_dir,
                   drawing_input_dir, open_file, other_open_file, at_hand>>

\* the button "Run EPD data extraction" is pressed
ClickRunExtraction ==
    /\ Waiting
    /\ saved_epd_names # <<>>
    /\ script_run("extract", epd_files, drawing_files)
    /\ UNCHANGED <<user_constraints, epd_data, epd_metrics,
                   compliance_result, saved_epd_names, analysis_results,
                   output_dir, regulation_file, saved_drawing_names,
                   drawing_analysis_results, custom_info_result, epd_files,
                   drawing_files, custom_info, epd_input_dir,
                   drawing_input_dir, open_file, other_open_file, at_hand>>

\* the button "Run full compliance check" is pressed
ClickRunFullComplianceCheck ==
    /\ Waiting
    /\ custom_info_result # PyNone
    /\ DOMAIN analysis_results # {}
    /\ "error" \notin DOMAIN custom_info_result
    /\ script_run("check", epd_files, drawing_files)
    /\ UNCHANGED <<user_constraints, epd_data, epd_metrics,
                   compliance_result, saved_epd_names, analysis_results,
                   output_dir, regulation_file, saved_drawing_names,
                   drawing_analysis_results, custom_info_result, epd_files,
                   drawing_files, custom_info, epd_input_dir,
                   drawing_input_dir, open_file, other_open_file, at_hand>>

\* save_uploaded_files opens the next product document of the uploader for
\* writing in the input folder: the file is there and empty
OpenEpdFile ==
    /\ pc = "saving_epds"
    /\ epd_input_dir' = Write(epd_input_dir, Head(todo), "not_pdf")
    /\ open_file' = [folder |-> "epds", path |-> Head(todo), linked |-> TRUE]
    /\ pc' = "writing_epd"
    /\ UNCHANGED <<exposure_classes, regulation_data, user_constraints,
                   drawing_reqs, final_reqs, epd_data, epd_metrics,
                   compliance_result, saved_epd_names, analysis_results,
                   output_dir, regulation_file, assessments, shown_error,
                   saved_drawing_names, drawing_analysis_results,
                   task_results, custom_info_result, epd_files,
                   drawing_files, custom_info, todo, drawing_input_dir,
                   other_open_file, clicked, listing, all_drawing_results,
                   at_hand>>

\* the bytes of the document are written into the opened file; after the last
\* document of the uploader the names are stored (line 77) and the script run
\* goes on to the drawings, or to the handler of the pressed button
WriteEpdFile ==
    /\ pc = "writing_epd"
    /\ epd_input_dir' \in written(epd_input_dir, open_file)
    /\ open_file' = PyNone
    /\ IF Tail(todo) # <<>>
       THEN /\ saved_epd_names' = saved_epd_names
            /\ todo' = Tail(todo)
            /\ pc' = "saving_epds"
       ELSE /\ saved_epd_names' = epd_files
            /\ IF drawing_files # <<>>
               THEN /\ todo' = drawing_files
                    /\ pc' = "saving_drawings"
               ELSE /\ todo' = handler_todo(clicked, epd_files, saved_drawing_names)
                    /\ pc' = handler_pc(clicked)
    /\ UNCHANGED <<exposure_classes, regulation_data, user_constraints,
                   drawing_reqs, final_reqs, epd_data, epd_metrics,
                   compliance_result, analysis_results, output_dir,
                   regulation_file, assessments, shown_error,
                   saved_drawing_names, drawing_analysis_results,
                   task_results, custom_info_result, epd_files,
                   drawing_files, custom_info, drawing_input_dir,
                   other_open_file, clicked, listing, all_drawing_results,
                   at_hand>>

\* save_uploaded_files opens the next drawing of the uploader for writing in
\* the input folder
OpenDrawingFile ==
    /\ pc = "saving_drawings"
    /\ drawing_input_dir' = Write(drawing_input_dir, Head(todo), "not_pdf")
    /\ open_file' = [folder |-> "drawings", path |-> Head(todo), linked |-> TRUE]
    /\ pc' = "writing_drawing"
    /\ UNCHANGED <<exposure_classes, regulation_data, user_constraints,
                   drawing_reqs, final_reqs, epd_data, epd_metrics,
                   compliance_result, saved_epd_names, analysis_results,
                   output_dir, regulation_file, assessments, shown_error,
                   saved_drawing_names, drawing_analysis_results,
                   task_results, custom_info_result, epd_files,
                   drawing_files, custom_info, todo, epd_input_dir,
                   other_open_file, clicked, listing, all_drawing_results,
                   at_hand>>

\* the bytes of the drawing are written into the opened file; after the last
\* drawing of the uploader the names are stored (line 80) and the script run
\* goes on to the handler of the pressed button
WriteDrawingFile ==
    /\ pc = "writing_drawing"
    /\ drawing_input_dir' \in written(drawing_input_dir, open_file)
    /\ open_file' = PyNone
    /\ IF Tail(todo) # <<>>
       THEN /\ saved_drawing_names' = saved_drawing_names
            /\ todo' = Tail(todo)
            /\ pc' = "saving_drawings"
       ELSE /\ saved_drawing_names' = drawing_files
            /\ todo' = handler_todo(clicked, saved_epd_names, drawing_files)
            /\ pc' = handler_pc(clicked)
    /\ UNCHANGED <<exposure_classes, regulation_data, user_constraints,
                   drawing_reqs, final_reqs, epd_data, epd_metrics,
                   compliance_result, saved_epd_names, analysis_results,
                   output_dir, regulation_file, assessments, shown_error,
                   drawing_analysis_results, task_results,
                   custom_info_result, epd_files, drawing_files,
                   custom_info, epd_input_dir, other_open_file, clicked,
                   listing, all_drawing_results, at_hand>>

\* the first call of the scenario analysis has returned: the record of the
\* exposure classes is stored as the call returned it, and the run is at the
\* message of its second step
DetermineUserRequirements ==
    /\ pc = "determine"
    /\ \E exp_class_result \in at_hand.exposure_answers :
         custom_info_result' = with_input_description(custom_info, exp_class_result)
    /\ pc' = "constraints"
    /\ UNCHANGED <<exposure_classes, regulation_data, user_constraints,
                   drawing_reqs, final_reqs, epd_data, epd_metrics,
                   compliance_result, saved_epd_names, analysis_results,
                   output_dir, regulation_file, assessments, shown_error,
                   saved_drawing_names, drawing_analysis_results,
                   task_results, epd_files, drawing_files, custom_info,
                   todo, epd_input_dir, drawing_input_dir, open_file,
                   other_open_file, clicked, listing, all_drawing_results,
                   at_hand>>

\* the second step of the scenario analysis: the record of the second call
\* is stored and the errors of the two records are shown; without the prompt
\* file of the second call its FileNotFoundError ends the run and the user's
\* constraints stay what they were
ExtractCustomConstraints ==
    /\ pc = "constraints"
    /\ IF at_hand.constraints_prompt
       THEN \E user_constraints_result \in at_hand.constraint_answers :
              /\ user_constraints' = user_constraints_result
              /\ shown_error' = scenario_errors(custom_info_result,
                                                user_constraints_result)
              /\ pc' = "idle"
       ELSE /\ user_constraints' = user_constraints
            /\ shown_error' = Raise("FileNotFoundError")
            /\ pc' = "stopped"
    /\ UNCHANGED <<exposure_classes, regulation_data, drawing_reqs,
                   final_reqs, epd_data, epd_metrics, compliance_result,
                   saved_epd_names, analysis_results, output_dir,
                   regulation_file, assessments, saved_drawing_names,
                   drawing_analysis_results, task_results,
                   custom_info_result, epd_files, drawing_files,
                   custom_info, todo, epd_input_dir, drawing_input_dir,
                   open_file, other_open_file, clicked, listing,
                   all_drawing_results, at_hand>>

\* the loop of the drawing analysis takes the next drawing: with the error
\* record of a failed scenario analysis the lookup of the classes raises
\* KeyError and the run ends; else the file of the drawing is read, and the
\* call of the API follows, or, for a file that cannot be read, the error of the
\* conversion is the result of the drawing
ReadDrawing ==
    /\ pc = "analyse"
    /\ IF "assigned_exposure_classes" \notin DOMAIN custom_info_result
       THEN /\ shown_error' = Raise("KeyError")
            /\ all_drawing_results' = all_drawing_results
            /\ todo' = todo
            /\ drawing_analysis_results' = drawing_analysis_results
            /\ pc' = "stopped"
       ELSE IF readable(drawing_input_dir, Head(todo))
       THEN /\ shown_error' = shown_error
            /\ all_drawing_results' = all_drawing_results
            /\ todo' = todo
            /\ drawing_analysis_results' = drawing_analysis_results
            /\ pc' = "drawing_call"
       ELSE /\ shown_error' = shown_error
            /\ all_drawing_results' =
                  Append(all_drawing_results, [name |-> Head(todo), result |-> FailedConversion])
            /\ todo' = Tail(todo)
            /\ drawing_analysis_results' =
                  IF Tail(todo) = <<>> THEN all_drawing_results'
                  ELSE drawing_analysis_results
            /\ pc' = IF Tail(todo) = <<>> THEN "idle" ELSE "analyse"
    /\ UNCHANGED <<exposure_classes, regulation_data, user_constraints,
                   drawing_reqs, final_reqs, epd_data, epd_metrics,
                   compliance_result, saved_epd_names, analysis_results,
                   output_dir, regulation_file, assessments,
                   saved_drawing_names, task_results, custom_info_result,
                   epd_files, drawing_files, custom_info, epd_input_dir,
                   drawing_input_dir, open_file, other_open_file, clicked,
                   listing, at_hand>>

\* the call of the API for the drawing has returned: its result is put into
\* all_drawing_results, and after the last drawing the results replace those of
\* the session (line 169)
AnalyseDrawings ==
    /\ pc = "drawing_call"
    /\ \E result \in DrawingResults :
         /\ all_drawing_results' =
               Append(all_drawing_results, [name |-> Head(todo), result |-> result])
         /\ todo' = Tail(todo)
         /\ drawing_analysis_results' =
               IF Tail(todo) = <<>> THEN all_drawing_results'
               ELSE drawing_analysis_results
         /\ pc' = IF Tail(todo) = <<>> THEN "idle" ELSE "analyse"
    /\ UNCHANGED <<exposure_classes, regulation_data, user_constraints,
                   drawing_reqs, final_reqs, epd_data, epd_metrics,
                   compliance_result, saved_epd_names, analysis_results,
                   output_dir, regulation_file, assessments, shown_error,
                   saved_drawing_names, task_results, custom_info_result,
                   epd_files, drawing_files, custom_info, epd_input_dir,
                   drawing_input_dir, open_file, other_open_file, clicked,
                   listing, at_hand>>

\* the task of the next document runs up to its call of the API: the file of
\* the document is read, and a file that cannot be read makes the task return
\* the error of the conversion
ReadEpdFile ==
    /\ pc \in {"extract", "reading"}
    /\ task_results' =
          IF readable(epd_input_dir, Head(todo)) THEN task_results
          ELSE Write(task_results, Head(todo), FailedConversion)
    /\ todo' = Tail(todo)
    /\ pc' = IF Tail(todo) = <<>> THEN "gathering" ELSE "reading"
    /\ UNCHANGED <<exposure_classes, regulation_data, user_constraints,
                   drawing_reqs, final_reqs, epd_data, epd_metrics,
                   compliance_result, saved_epd_names, analysis_results,
                   output_dir, regulation_file, assessments, shown_error,
                   saved_drawing_names, drawing_analysis_results,
                   custom_info_result, epd_files, drawing_files,
                   custom_info, epd_input_dir, drawing_input_dir, open_file,
                   other_open_file, clicked, listing, all_drawing_results,
                   at_hand>>

\* the calls of the API have returned and asyncio.gather returns the results
\* of the tasks: they are stored in the session under the names (line 195), and
\* the results without an error are still to be saved
RunExtraction ==
    /\ pc = "gathering"
    /\ \E returned \in [Range(saved_epd_names) \ DOMAIN task_results ->
                          at_hand.extraction_results],
          completion \in CompletionOrders(Len(saved_epd_names)) :
         /\ task_results' = returned @@ task_results
         /\ analysis_results' =
               zip_dict(saved_epd_names,
                        run_async_analysis(saved_epd_names, task_results', completion))
         /\ todo' = without_error(saved_epd_names, analysis_results')
    /\ pc' = IF todo' = <<>> THEN "idle" ELSE "saving"
    /\ UNCHANGED <<exposure_classes, regulation_data, user_constraints,
                   drawing_reqs, final_reqs, epd_data, epd_metrics,
                   compliance_result, saved_epd_names, output_dir,
                   regulation_file, assessments, shown_error,
                   saved_drawing_names, drawing_analysis_results,
                   custom_info_result, epd_files, drawing_files,
                   custom_info, epd_input_dir, drawing_input_dir, open_file,
                   other_open_file, clicked, listing, all_drawing_results,
                   at_hand>>

\* save_extraction_result of the next result without an error opens its
\* output file for writing: the file is there and empty
OpenOutputFile ==
    /\ pc = "saving"
    /\ output_dir' = Write(output_dir, json_path(Head(todo)), NotJson(0))
    /\ open_file' = [folder |-> "output", path |-> json_path(Head(todo)),
                     linked |-> TRUE]
    /\ pc' = "dumping"
    /\ UNCHANGED <<exposure_classes, regulation_data, user_constraints,
                   drawing_reqs, final_reqs, epd_data, epd_metrics,
                   compliance_result, saved_epd_names, analysis_results,
                   regulation_file, assessments, shown_error,
                   saved_drawing_names, drawing_analysis_results,
                   task_results, custom_info_result, epd_files,
                   drawing_files, custom_info, todo, epd_input_dir,
                   drawing_input_dir, other_open_file, clicked, listing,
                   all_drawing_results, at_hand>>

\* json.dump writes the result into the opened file and the loop of lines
\* 197-199 goes on
SaveExtractionResult ==
    /\ pc = "dumping"
    /\ output_dir' = dump(output_dir, open_file, analysis_results[Head(todo)])
    /\ open_file' = PyNone
    /\ todo' = Tail(todo)
    /\ pc' = IF todo' = <<>> THEN "idle" ELSE "saving"
    /\ UNCHANGED <<exposure_classes, regulation_data, user_constraints,
                   drawing_reqs, final_reqs, epd_data, epd_metrics,
                   compliance_result, saved_epd_names, analysis_results,
                   regulation_file, assessments, shown_error,
                   saved_drawing_names, drawing_analysis_results,
                   task_results, custom_info_result, epd_files,
                   drawing_files, custom_info, epd_input_dir,
                   drawing_input_dir, other_open_file, clicked, listing,
                   all_drawing_results, at_hand>>

\* the button "Clear All Uploaded Files" is pressed: the script runs again,
\* to the handler of the button in the sidebar, and clear_io_folders lists the
\* folder of the product documents
ClearAllUploadedFiles ==
    /\ Waiting
    /\ clicked' = "clear"
    /\ exposure_classes' = PyNone
    /\ drawing_reqs' = PyNone
    /\ regulation_data' = PyNone
    /\ final_reqs' = PyNone
    /\ assessments' = <<>>
    /\ shown_error' = PyNone
    /\ task_results' = <<>>
    /\ all_drawing_results' = <<>>
    /\ todo' = <<>>
    /\ listing' = DOMAIN epd_input_dir
    /\ pc' = "clearing_epds"
    /\ UNCHANGED <<user_constraints, epd_data, epd_metrics,
                   compliance_result, saved_epd_names, analysis_results,
                   output_dir, regulation_file, saved_drawing_names,
                   drawing_analysis_results, custom_info_result, epd_files,
                   drawing_files, custom_info, epd_input_dir,
                   drawing_input_dir, open_file, other_open_file, at_hand>>

\* clear_io_folders removes the next listed file of the folder of the product
\* documents, if it is still there; after the last one it lists the folder of
\* the drawings
ClearEpdInputs ==
    /\ pc = "clearing_epds"
    /\ IF listing # {}
       THEN \E name \in listing :
              /\ listing' = listing \ {name}
              /\ epd_input_dir' = Remove(epd_input_dir, name)
              /\ other_open_file' = unlinked(other_open_file, "epds", name)
              /\ pc' = "clearing_epds"
       ELSE /\ listing' = DOMAIN drawing_input_dir
            /\ epd_input_dir' = epd_input_dir
            /\ other_open_file' = other_open_file
            /\ pc' = "clearing_drawings"
    /\ UNCHANGED <<exposure_classes, regulation_data, user_constraints,
                   drawing_reqs, final_reqs, epd_data, epd_metrics,
                   compliance_result, saved_epd_names, analysis_results,
                   output_dir, regulation_file, assessments, shown_error,
                   saved_drawing_names, drawing_analysis_results,
                   task_results, custom_info_result, epd_files,
                   drawing_files, custom_info, todo, drawing_input_dir,
                   open_file, clicked, all_drawing_results, at_hand>>

\* clear_io_folders removes the next listed file of the folder of the
\* drawings; after the last one it lists the output folder
ClearDrawingInputs ==
    /\ pc = "clearing_drawings"
    /\ IF listing # {}
       THEN \E name \in listing :
              /\ listing' = listing \ {name}
              /\ drawing_input_dir' = Remove(drawing_input_dir, name)
              /\ other_open_file' = unlinked(other_open_file, "drawings", name)
              /\ pc' = "clearing_drawings"
       ELSE /\ listing' = DOMAIN output_dir
            /\ drawing_input_dir' = drawing_input_dir
            /\ other_open_file' = other_open_file
            /\ pc' = "clearing_output"
    /\ UNCHANGED <<exposure_classes, regulation_data, user_constraints,
                   drawing_reqs, final_reqs, epd_data, epd_metrics,
                   compliance_result, saved_epd_names, analysis_results,
                   output_dir, regulation_file, assessments, shown_error,
                   saved_drawing_names, drawing_analysis_results,
                   task_results, custom_info_result, epd_files,
                   drawing_files, custom_info, todo, epd_input_dir,
                   open_file, clicked, all_drawing_results, at_hand>>

\* clear_io_folders removes the next listed file of the output folder; after
\* the last one the handler resets three entries of the session, and
\* st.rerun() ends the script run before the uploaders are looked at
ClearOutputs ==
    /\ pc = "clearing_output"
    /\ IF listing # {}
       THEN \E path \in listing :
              /\ listing' = listing \ {path}
              /\ output_dir' = Remove(output_dir, path)
              /\ other_open_file' = unlinked(other_open_file, "output", path)
              /\ saved_epd_names' = saved_epd_names
              /\ saved_drawing_names' = saved_drawing_names
              /\ analysis_results' = analysis_results
              /\ pc' = "clearing_output"
       ELSE /\ listing' = listing
            /\ output_dir' = output_dir
            /\ other_open_file' = other_open_file
            /\ saved_epd_names' = <<>>
            /\ saved_drawing_names' = <<>>
            /\ analysis_results' = <<>>
            /\ pc' = "cleared"
    /\ UNCHANGED <<exposure_classes, regulation_data, user_constraints,
                   drawing_reqs, final_reqs, epd_data, epd_metrics,
                   compliance_result, regulation_file, assessments,
                   shown_error, drawing_analysis_results, task_results,
                   custom_info_result, epd_files, drawing_files,
                   custom_info, todo, epd_input_dir, drawing_input_dir,
                   open_file, clicked, all_drawing_results, at_hand>>

\* the script run that st.rerun() starts: an uploader that still holds its
\* files saves them and their names again
Rerun ==
    /\ pc = "cleared"
    /\ script_run("clear", epd_files, drawing_files)
    /\ UNCHANGED <<user_constraints, epd_data, epd_metrics,
                   compliance_result, saved_epd_names, analysis_results,
                   output_dir, regulation_file, saved_drawing_names,
                   drawing_analysis_results, custom_info_result, epd_files,
                   drawing_files, custom_info, epd_input_dir,
                   drawing_input_dir, open_file, other_open_file, at_hand>>

\* the handler of the button "Run full compliance check", up to the second
\* document: the regulation file is loaded; an exception of
\* load_regulation_file ends the run, its error record is shown, and otherwise
\* the requirement record is computed and the first document is assessed; the
\* other documents are still to be assessed
RunFullComplianceCheck ==
    /\ pc = "check"
    /\ exposure_classes' = assigned_exposure_classes(custom_info_result)
    /\ drawing_reqs' = next_iter_values(drawing_analysis_results)
    /\ LET loaded == load_regulation_file(regulation_file)
       IN  IF IsRaised(loaded)
           THEN /\ regulation_data' = PyNone
                /\ shown_error' = loaded
                /\ final_reqs' = PyNone
                /\ assessments' = <<>>
                /\ todo' = <<>>
                /\ pc' = "stopped"
           ELSE /\ regulation_data' = loaded
                /\ IF "error" \in DOMAIN loaded
                   THEN /\ shown_error' = loaded["error"]
                        /\ final_reqs' = PyNone
                        /\ assessments' = <<>>
                        /\ todo' = <<>>
                   ELSE /\ shown_error' = PyNone
                        /\ final_reqs' =
                              get_final_requirements(exposure_classes', loaded,
                                                     user_constraints, drawing_reqs')
                        /\ IF saved_epd_names = <<>>
                           THEN /\ assessments' = <<>>
                                /\ todo' = <<>>
                           ELSE /\ assessments' =
                                     <<assess(Head(saved_epd_names), output_dir,
                                              final_reqs')>>
                                /\ todo' = Tail(saved_epd_names)
                /\ pc' = IF todo' = <<>> THEN "assessed" ELSE "checking"
    /\ UNCHANGED <<user_constraints, epd_data, epd_metrics,
                   compliance_result, saved_epd_names, analysis_results,
                   output_dir, regulation_file, saved_drawing_names,
                   drawing_analysis_results, task_results,
                   custom_info_result, epd_files, drawing_files,
                   custom_info, epd_input_dir, drawing_input_dir, open_file,
                   other_open_file, clicked, listing, all_drawing_results,
                   at_hand>>

\* the loop of lines 231-253 goes on: the next document is assessed on the
\* output folder as it is now
AssessDocument ==
    /\ pc = "checking"
    /\ assessments' = Append(assessments, assess(Head(todo), output_dir, final_reqs))
    /\ todo' = Tail(todo)
    /\ pc' = IF todo' = <<>> THEN "assessed" ELSE "checking"
    /\ UNCHANGED <<exposure_classes, regulation_data, user_constraints,
                   drawing_reqs, final_reqs, epd_data, epd_metrics,
                   compliance_result, saved_epd_names, analysis_results,
                   output_dir, regulation_file, shown_error,
                   saved_drawing_names, drawing_analysis_results,
                   task_results, custom_info_result, epd_files,
                   drawing_files, custom_info, epd_input_dir,
                   drawing_input_dir, open_file, other_open_file, clicked,
                   listing, all_drawing_results, at_hand>>

\* clear_io_folders of another session, which starts or clears, removes a
\* file of one of the folders that all sessions share; a file that is open for
\* writing is written to no more
OtherSessionRemoves ==
    /\ \/ /\ \E name \in DOMAIN epd_input_dir :
                /\ epd_input_dir' = Remove(epd_input_dir, name)
                /\ open_file' = unlinked(open_file, "epds", name)
                /\ other_open_file' = unlinked(other_open_file, "epds", name)
          /\ drawing_input_dir' = drawing_input_dir
          /\ output_dir' = output_dir
       \/ /\ \E name \in DOMAIN drawing_input_dir :
                /\ drawing_input_dir' = Remove(drawing_input_dir, name)
                /\ open_file' = unlinked(open_file, "drawings", name)
                /\ other_open_file' = unlinked(other_open_file, "drawings", name)
          /\ epd_input_dir' = epd_input_dir
          /\ output_dir' = output_dir
       \/ /\ \E path \in DOMAIN output_dir :
                /\ output_dir' = Remove(output_dir, path)
                /\ open_file' = unlinked(open_file, "output", path)
                /\ other_open_file' = unlinked(other_open_file, "output", path)
          /\ epd_input_dir' = epd_input_dir
          /\ drawing_input_dir' = drawing_input_dir
    /\ UNCHANGED <<exposure_classes, regulation_data, user_constraints,
                   drawing_reqs, final_reqs, pc, epd_data, epd_metrics,
                   compliance_result, saved_epd_names, analysis_results,
                   regulation_file, assessments, shown_error,
                   saved_drawing_names, drawing_analysis_results,
                   task_results, custom_info_result, epd_files,
                   drawing_files, custom_info, todo, clicked, listing,
                   all_drawing_results, at_hand>>

\* save_uploaded_files of another session opens a file of its uploaders for
\* writing in an input folder: the file is there and empty
OtherSessionUploads ==
    /\ other_open_file = PyNone
    /\ \/ /\ \E name \in at_hand.other_epds :
                /\ epd_input_dir' = Write(epd_input_dir, name, "not_pdf")
                /\ other_open_file' =
                      [folder |-> "epds", path |-> name, linked |-> TRUE]
          /\ drawing_input_dir' = drawing_input_dir
       \/ /\ \E name \in at_hand.other_drawings :
                /\ drawing_input_dir' = Write(drawing_input_dir, name, "not_pdf")
                /\ other_open_file' =
                      [folder |-> "drawings", path |-> name, linked |-> TRUE]
          /\ epd_input_dir' = epd_input_dir
    /\ UNCHANGED <<exposure_classes, regulation_data, user_constraints,
                   drawing_reqs, final_reqs, pc, epd_data, epd_metrics,
                   compliance_result, saved_epd_names, analysis_results,
                   output_dir, regulation_file, assessments, shown_error,
                   saved_drawing_names, drawing_analysis_results,
                   task_results, custom_info_result, epd_files,
                   drawing_files, custom_info, todo, open_file, clicked,
                   listing, all_drawing_results, at_hand>>

\* save_uploaded_files of another session writes the bytes of its file into
\* the file it opened
OtherSessionWrites ==
    /\ other_open_file # PyNone
    /\ \/ /\ other_open_file.folder = "epds"
          /\ epd_input_dir' \in written(epd_input_dir, other_open_file)
          /\ drawing_input_dir' = drawing_input_dir
       \/ /\ other_open_file.folder = "drawings"
          /\ drawing_input_dir' \in written(drawing_input_dir, other_open_file)
          /\ epd_input_dir' = epd_input_dir
    /\ other_open_file' = PyNone
    /\ UNCHANGED <<exposure_classes, regulation_data, user_constraints,
                   drawing_reqs, final_reqs, pc, epd_data, epd_metrics,
                   compliance_result, saved_epd_names, analysis_results,
                   output_dir, regulation_file, assessments, shown_error,
                   saved_drawing_names, drawing_analysis_results,
                   task_results, custom_info_result, epd_files,
                   drawing_files, custom_info, todo, open_file, clicked,
                   listing, all_drawing_results, at_hand>>

\* save_extraction_result of another session opens its output file for
\* writing: the file is there and empty
OtherSessionOpens ==
    /\ other_open_file = PyNone
    /\ \E other \in at_hand.other_outputs :
         /\ output_dir' = Write(output_dir, other.path, NotJson(0))
         /\ other_open_file' = [folder |-> "output", path |-> other.path,
                                linked |-> TRUE, content |-> other.content]
    /\ UNCHANGED <<exposure_classes, regulation_data, user_constraints,
                   drawing_reqs, final_reqs, pc, epd_data, epd_metrics,
                   compliance_result, saved_epd_names, analysis_results,
                   regulation_file, assessments, shown_error,
                   saved_drawing_names, drawing_analysis_results,
                   task_results, custom_info_result, epd_files,
                   drawing_files, custom_info, todo, epd_input_dir,
                   drawing_input_dir, open_file, clicked, listing,
                   all_drawing_results, at_hand>>

\* json.dump of another session writes its result into the file it opened
OtherSessionSaves ==
    /\ other_open_file # PyNone
    /\ other_open_file.folder = "output"
    /\ output_dir' = dump(output_dir, other_open_file, other_open_file.content)
    /\ other_open_file' = PyNone
    /\ UNCHANGED <<exposure_classes, regulation_data, user_constraints,
                   drawing_reqs, final_reqs, pc, epd_data, epd_metrics,
                   compliance_result, saved_epd_names, analysis_results,
                   regulation_file, assessments, shown_error,
                   saved_drawing_names, drawing_analysis_results,
                   task_results, custom_info_result, epd_files,
                   drawing_files, custom_info, todo, epd_input_dir,
                   drawing_input_dir, open_file, clicked, listing,
                   all_drawing_results, at_hand>>

NextSession ==
    \/ EnterCustomInfo
    \/ SelectRegulation
    \/ UploadEpdFiles
    \/ UploadDrawingFiles
    \/ ClickDetermine
    \/ ClickAnalyseDrawings
    \/ ClickRunExtraction
    \/ ClickRunFullComplianceCheck
    \/ OpenEpdFile
    \/ WriteEpdFile
    \/ OpenDrawingFile
    \/ WriteDrawingFile
    \/ DetermineUserRequirements
    \/ ExtractCustomConstraints
    \/ ReadDrawing
    \/ AnalyseDrawings
    \/ ReadEpdFile
    \/ RunExtraction
    \/ OpenOutputFile
    \/ SaveExtractionResult
    \/ ClearAllUploadedFiles
    \/ ClearEpdInputs
    \/ ClearDrawingInputs
    \/ ClearOutputs
    \/ Rerun
    \/ RunFullComplianceCheck
    \/ AssessDocument
    \/ OtherSessionRemoves
    \/ OtherSessionUploads
    \/ OtherSessionWrites
    \/ OtherSessionOpens
    \/ OtherSessionSaves

SpecSession == InitSession /\ [][NextSession]_vars

\* ------------------------------------------------------------------------
\* Vocabulary of the session properties
\* ------------------------------------------------------------------------
\* the full compliance check has run
Assessed == pc = "assessed"

\* the requirement record was computed in that run
RequirementsComputed == Assessed /\ "error" \notin DOMAIN regulation_data

\* the full compliance check was started and its script run has ended, with
\* its results or with an exception of load_regulation_file
CheckEnded == pc = "assessed" \/ (pc = "stopped" /\ clicked = "check")

\* ------------------------------------------------------------------------
\* C18  When the file of the selected regulation is missing or does not
\*      parse, load_regulation_file returns an error record instead of
\*      raising, and the full compliance check shows it, computes no
\*      requirement record and gives no verdict for any product.
\* ------------------------------------------------------------------------
C18_RegulationErrorsTerminal ==
    CheckEnded /\ regulation_file.t # "json" =>
        /\ pc = "assessed"
        /\ "error" \in DOMAIN regulation_data
        /\ shown_error = regulation_data["error"]
        /\ final_reqs = PyNone
        /\ assessments = <<>>

\* ------------------------------------------------------------------------
\* C19  In a batch of documents a failure of one document (an extraction
\*      error, a missing output file, an exception while its metrics are
\*      derived or checked) is recorded against that document only: every
\*      document whose own extraction gave a usable result has that result
\*      and the verdict computed from it.
\* ------------------------------------------------------------------------
\* the outcome that the extraction result of a document alone determines
OwnOutcome(i) ==
    LET own == analysis_results[saved_epd_names[i]]
        metrics == calculate_epd_metrics(own)
    IN  /\ assessments[i].file = saved_epd_names[i]
        /\ "error" \notin DOMAIN own /\ ~IsRaised(metrics) =>
              /\ assessments[i].outcome = "verdict"
              /\ assessments[i].compliance_result =
                    perform_compliance_check(metrics, final_reqs)
        /\ "error" \notin DOMAIN own /\ IsRaised(metrics) =>
              assessments[i].outcome = "error"

C19_FailureIsolation ==
    RequirementsComputed =>
        \A i \in DOMAIN saved_epd_names :
            /\ saved_epd_names[i] \in DOMAIN analysis_results
            /\ OwnOutcome(i)

\* ------------------------------------------------------------------------
\* Properties of the three functions as functions
\* ------------------------------------------------------------------------
\* the exposure class list with its items listed in another order
Relistings(ec) ==
    IF ec.t # "list" THEN {ec}
    ELSE { List([i \in DOMAIN ec.v |-> ec.v[p[i]]]) :
             p \in { q \in [DOMAIN ec.v -> DOMAIN ec.v] :
                       \A i, j \in DOMAIN ec.v : q[i] = q[j] => i = j } }

\* the classes of the call that contribute a w/c ceiling
CeilingClasses == { c \in Contributing : Get(regulation_data[c], "max_wc") # None }

\* C21  Determinism: the requirement record returned by a call is the same in
\* whichever order the loop visits the combined classes and in whichever
\* order the exposure classes are listed; the metrics returned are a function
\* of the declaration alone and the result of the check a function of the
\* declaration and the inputs of get_final_requirements alone.
C21_Determinism ==
    /\ pc = "done" =>
         \A l \in Relistings(exposure_classes) :
           final_reqs = get_final_requirements(l, regulation_data, user_constraints,
                                               drawing_reqs)
    /\ pc \in {"derived", "raised"} =>
         epd_metrics = calculate_epd_metrics(epd_data)
    /\ pc = "checked" =>
         compliance_result =
           perform_compliance_check(
             calculate_epd_metrics(epd_data),
             get_final_requirements(exposure_classes, regulation_data,
                                    user_constraints, drawing_reqs))

\* two classes with different w/c ceilings were folded, the list can be
\* written in another order, and the product was checked
C21_Witness ==
    /\ pc = "checked"
    /\ \E c, d \in CeilingClasses : regulation_data[c].max_wc # regulation_data[d].max_wc
    /\ Cardinality(Relistings(exposure_classes)) > 1
    /\ final_reqs.max_wc = SetMin({regulation_data[c].max_wc : c \in CeilingClasses})
    /\ compliance_result.details # <<>>

\* C22  Inputs are read-only: the call of get_final_requirements leaves the
\* exposure classes, the regulation table, the user constraints and the
\* drawing record as they were, calculate_epd_metrics leaves the declaration
\* as it was, perform_compliance_check leaves the requirement record and the
\* metrics as they were, and the requirement record stays the same from its
\* computation to the end of the assessment.
C22_InputsReadOnly ==
    [][ /\ (pc = "call" /\ pc' = "done") =>
             UNCHANGED <<exposure_classes, regulation_data, user_constraints,
                         drawing_reqs>>
        /\ (pc = "done" /\ pc' \in {"derived", "raised"}) =>
             UNCHANGED <<epd_data, final_reqs>>
        /\ (pc = "derived" /\ pc' = "checked") =>
             UNCHANGED <<final_reqs, epd_metrics, epd_data>> ]_vars

\* a declaration with a composition was derived and checked against a record
\* that user constraints took part in
C22_Witness ==
    /\ pc = "checked"
    /\ "mat_comp" \in DOMAIN epd_data
    /\ epd_metrics.calculated_wc # PyNone
    /\ Truthy(user_constraints)
    /\ ~compliance_result.pass

\* ------------------------------------------------------------------------
\* Properties of the drawing source
\* ------------------------------------------------------------------------
\* the non-null value the drawing's element_specific_reqs state under key k
StatedByDrawing(k) ==
    IF HasSpecific /\ Get(drawing_reqs["element_specific_reqs"], k) # None
    THEN {drawing_reqs["element_specific_reqs"][k]} ELSE {}

\* C23  Drawing strength clause, as claimed: a non-null strength stated by the
\* drawing under the key strength_class is a lower bound of the returned
\* strength_min_cyl.
C23_DrawingStrengthClass ==
    Returned =>
      \A v \in StatedByDrawing("strength_class") : final_reqs.strength_min_cyl >= v

\* C23  Drawing strength clause, amended: a non-null strength stated by the
\* drawing under the key strength_class_mpa is a lower bound of the returned
\* strength_min_cyl.
C23_DrawingStrengthClassMpa ==
    Returned =>
      \A v \in StatedByDrawing("strength_class_mpa") : final_reqs.strength_min_cyl >= v

\* the drawing's strength was above the regulation's and the user's and became
\* the requirement
C23_Witness ==
    /\ Returned
    /\ StatedByDrawing("strength_class_mpa") # {}
    /\ RegValues("strength_min_cyl") # {}
    /\ UserValues("strength_min_cyl") # {}
    /\ \A v \in StatedByDrawing("strength_class_mpa") :
         /\ \A r \in RegValues("strength_min_cyl") \cup UserValues("strength_min_cyl") : v > r
         /\ final_reqs.strength_min_cyl = v

\* ------------------------------------------------------------------------
\* Properties of failed extractions
\* ------------------------------------------------------------------------
\* an argument that is the error object of a failed extraction
IsErrorRecord(x) == x # PyNone /\ "error" \in DOMAIN x

\* the argument as the claim says it counts: an error object counts as None
ErrorAsNone(x) == IF IsErrorRecord(x) THEN PyNone ELSE x

\* C25  Error records contribute nothing: when user_constraints or
\* drawing_reqs is an error object, get_final_requirements returns, and returns
\* the record it returns with None in the place of that argument.
C25_ErrorRecordsContributeNothing ==
    (Returned /\ (IsErrorRecord(user_constraints) \/ IsErrorRecord(drawing_reqs))) =>
      /\ ~IsRaised(final_reqs)
      /\ final_reqs = Requirements(ErrorAsNone(user_constraints), drawing_reqs)
      /\ final_reqs = Requirements(user_constraints, ErrorAsNone(drawing_reqs))
      /\ final_reqs = Requirements(ErrorAsNone(user_constraints), ErrorAsNone(drawing_reqs))

\* the drawing analysis failed while the user stated a ceiling that became
\* the requirement
C25_Witness ==
    /\ Returned
    /\ IsErrorRecord(drawing_reqs)
    /\ ~IsErrorRecord(user_constraints)
    /\ UserValues("max_wc") # {}
    /\ RegValues("max_wc") # {}
    /\ \A u \in UserValues("max_wc") : final_reqs.max_wc = u

\* ------------------------------------------------------------------------
\* Properties of the w/c ceiling across aggregation and check
\* ------------------------------------------------------------------------
\* C26  A defined w/c ceiling is always enforced: when some source defines
\* max_wc and the product's calculated_wc is not null, the check emits a w/c
\* finding, fails a product whose calculated_wc exceeds the strictest defined
\* ceiling, and the requirement record holds that ceiling, also when it is
\* 1.0 or more.
C26_DefinedCeilingEnforced ==
    (Checked /\ DefinedValues("max_wc") # {} /\ ~MetricIsNull("w/c ratio")) =>
      LET ceiling == SetMin(DefinedValues("max_wc")) IN
      /\ FindingsOf("w/c ratio") # {}
      /\ FloatGreaterHundredths(epd_metrics.calculated_wc, ceiling) =>
           ~compliance_result.pass
      /\ final_reqs.max_wc = ceiling

\* ------------------------------------------------------------------------
\* Properties of the classification of materials
\* ------------------------------------------------------------------------
NoSums == [water_mass_percent |-> 0, cement_mass_percent |-> 0]

\* the name of an entry matches a cement pattern
NamesCement(m) == Contains(cement, EntryName(m)) \/ Contains(cem, EntryName(m))

\* the sum an entry belongs to by its name: a name with a water pattern is
\* water whether or not it has a cement pattern as well
KindOf(m) ==
    LET name_lower == EntryName(m) IN
    IF Contains(water, name_lower) \/ Contains(agua, name_lower) THEN "water"
    ELSE IF Contains(cement, name_lower) \/ Contains(cem, name_lower) THEN "cement"
    ELSE "none"

\* C27  Material classification is exclusive: the loop body adds the
\* percentage of an entry to at most one of the two sums, to the water sum
\* alone when the name matches a water pattern (whether or not it also matches
\* a cement pattern), to the cement sum alone when it matches a cement pattern
\* only, and to neither when it matches none; the sums of the loop are the
\* sums over the entries so classified, and the ratio is taken from them.
C27_ExclusiveClassification ==
    pc = "derived" =>
      LET kind == [i \in DOMAIN Composition |-> KindOf(Composition[i])]
          sums == sum_materials(NoSums, Composition)
      IN  /\ \A i \in DOMAIN Composition :
               LET after == add_material(NoSums, Composition[i])
                   share == EntryShare(Composition[i])
               IN  /\ ~IsRaised(after)
                   /\ after.water_mass_percent = 0 \/ after.cement_mass_percent = 0
                   /\ kind[i] = "water" =>
                        after = [water_mass_percent |-> share, cement_mass_percent |-> 0]
                   /\ kind[i] = "cement" =>
                        after = [water_mass_percent |-> 0, cement_mass_percent |-> share]
                   /\ kind[i] = "none" => after = NoSums
          /\ sums.water_mass_percent =
                ShareSum({i \in DOMAIN Composition : kind[i] = "water"})
          /\ sums.cement_mass_percent =
                ShareSum({i \in DOMAIN Composition : kind[i] = "cement"})
          /\ epd_metrics.calculated_wc = calculated_wc(sums)

\* an entry that names both cement and water stood next to a cement entry and
\* counted as water in the ratio
C27_Witness ==
    /\ Derived
    /\ \E i \in DOMAIN Composition :
         /\ NamesWater(Composition[i]) /\ NamesCement(Composition[i])
         /\ EntryShare(Composition[i]) > 0
    /\ CementEntries # {}
    /\ epd_metrics.calculated_wc # PyNone
    /\ epd_metrics.calculated_wc.num > 0

\* ------------------------------------------------------------------------
\* Properties of the session with drawings
\* ------------------------------------------------------------------------
\* the results of the analysed drawings
AnalysedDrawings ==
    { drawing_analysis_results[i].result : i \in DOMAIN drawing_analysis_results }

\* the non-null value a drawing result states for clause f
StatedBy(d, f) ==
    IF "element_specific_reqs" \in DOMAIN d
       /\ Get(d["element_specific_reqs"], DrawingKey(f)) # None
    THEN {d["element_specific_reqs"][DrawingKey(f)]} ELSE {}

\* the exposure classes a drawing result lists
ClassesOf(d) ==
    IF "drawing_exposure_classes" \in DOMAIN d
    THEN add_to_set(d["drawing_exposure_classes"]) ELSE {}

\* C24  All drawing sources contribute: the requirement record of the full
\* compliance check is, clause by clause, at least as strict as every analysed
\* drawing, and its source_exposure_classes hold the exposure classes of
\* every analysed drawing.
C24_AllDrawingsContribute ==
    RequirementsComputed =>
      \A d \in AnalysedDrawings :
        /\ \A f \in Fields : \A v \in StatedBy(d, f) : AtLeastAsStrict(f, final_reqs[f], v)
        /\ ClassesOf(d) \subseteq Range(final_reqs.source_exposure_classes)

\* ------------------------------------------------------------------------
\* Properties of the extraction run
\* ------------------------------------------------------------------------
\* C28  Extraction results are attributed to the right document: in an
\* extraction run, whatever the order in which the tasks completed,
\* analysis_results maps every saved name to what the extraction of that
\* document returned; a step of the run writes the output file of a name only
\* when the result of that name carries no error, and when the run ends the
\* output file of every name whose result carries no error holds that result.
C28_ResultsAttributed ==
    [][ (RunExtraction \/ OpenOutputFile \/ SaveExtractionResult) =>
          /\ \A i \in DOMAIN saved_epd_names' :
               LET n == saved_epd_names'[i]
               IN  /\ n \in DOMAIN analysis_results'
                   /\ analysis_results'[n] = task_results'[n]
          /\ \A path \in DOMAIN output_dir' :
               (path \notin DOMAIN output_dir \/ output_dir'[path] # output_dir[path]) =>
                  \A i \in DOMAIN saved_epd_names' :
                     json_path(saved_epd_names'[i]) = path =>
                        "error" \notin DOMAIN task_results'[saved_epd_names'[i]]
          /\ pc' = "idle" =>
               \A i \in DOMAIN saved_epd_names' :
                  LET n == saved_epd_names'[i]
                  IN  "error" \notin DOMAIN task_results'[n] =>
                         /\ json_path(n) \in DOMAIN output_dir'
                         /\ output_dir'[json_path(n)] = task_results'[n] ]_vars

\* C29  No verdict from stale data: in the full compliance check a document
\* whose most recent extraction result is an error gets no PASS/FAIL verdict,
\* whatever extraction runs and checks came before.
C29_NoVerdictFromStaleData ==
    RequirementsComputed =>
      \A i \in DOMAIN saved_epd_names :
        LET n == saved_epd_names[i] IN
        (n \in DOMAIN analysis_results /\ "error" \in DOMAIN analysis_results[n]) =>
           assessments[i].outcome # "verdict"

\* ------------------------------------------------------------------------
\* Properties of "Clear All Uploaded Files"
\* ------------------------------------------------------------------------
\* "Clear All Uploaded Files" was pressed: its handler has run, or the script
\* run it starts has
Cleared == clicked = "clear" /\ pc \in {"cleared", "idle"}

\* C30  Clear resets all file-derived state: after the clearing the session
\* holds no product document names, no drawing names, no extraction results
\* and no drawing analysis results, and a full compliance check of a session
\* without drawings applies no drawing record.
C30_ClearResetsFileState ==
    /\ Cleared =>
         /\ saved_epd_names = <<>>
         /\ saved_drawing_names = <<>>
         /\ analysis_results = <<>>
         /\ drawing_analysis_results = <<>>
    /\ (Assessed /\ saved_drawing_names = <<>>) => drawing_reqs = PyNone

====
